---------------------------- MODULE Spec2Model ----------------------------
(***************************************************************************)
(* Model of the flight service of plane-tracker (Backend/flights.py and    *)
(* Backend/kalman_filter.py): the rate-budgeted fetch/cache orchestrator   *)
(* FlightService.get_sf_bay_flights with concurrent callers, the per       *)
(* aircraft altitude filter AltitudeKalmanFilter and the altitude fallback *)
(* ladder FlightService._predict_missing_altitude.                         *)
(*                                                                         *)
(* Conventions.                                                            *)
(*  - A Python Optional is a sequence of length 0 (None) or 1 (a value).   *)
(*  - Wall-clock time is an integer number of seconds (variable now).      *)
(*  - Filter state is kept in whole altitude units; covariance is kept in  *)
(*    tenths (Q[1][1] = 0.1 is one tenth).  Floating point results are     *)
(*    therefore rounded to these grids.                                    *)
(*  - Latitudes and longitudes are tenths of a degree.                     *)
(***************************************************************************)
EXTENDS Integers, Sequences, FiniteSets, TLC

VARIABLES
    now,                    \* time.time()
    cache,                  \* self._cache (Optional list of enhanced flights)
    cache_timestamp,        \* self._cache_timestamp
    last_request_time,      \* self._last_request_time
    daily_credits_used,     \* self._daily_credits_used
    max_daily_credits,      \* self._max_daily_credits
    rate_limit_remaining,   \* self._rate_limit_remaining
    rate_limit_reset_time,  \* self._rate_limit_reset_time (Optional)
    altitude_filters,       \* self.altitude_filters: icao24 -> filter
    flight_history,         \* self.flight_history: icao24 -> list of flights
    pc,                     \* per caller: where its get_sf_bay_flights call is
    current_time,           \* per caller: the local current_time of its call
    fetched,                \* the flight lists produced by successful fetches
    polls,                  \* number of _parse_flight_data runs so far
    ev                      \* the last step taken: its kind (op), its inputs and
                            \* (ret) the outcome the caller received in it

vars == << now, cache, cache_timestamp, last_request_time, daily_credits_used,
           max_daily_credits, rate_limit_remaining, rate_limit_reset_time,
           altitude_filters, flight_history, pc, current_time,
           fetched, polls, ev >>

orch == << cache, cache_timestamp, last_request_time, daily_credits_used,
           max_daily_credits, rate_limit_remaining, rate_limit_reset_time >>

-----------------------------------------------------------------------------
(* Bounds of the model *)

MaxTime == 14
MaxPolls == 2
MaxParsePolls == 3

(* Program constants *)

cache_duration == 8
min_request_interval == 5
DefaultCredits == 4000
HighCredits == 8000
DefaultRetryAfter == 60
InitialAltitude == 35000
DefaultCruiseAltitude == 35000
MaxReasonableAltitude == 50000
MinValidAltitude == 100
HistoryLimit == 10
MinStateFields == 17
DefaultPredictionTime == 60
DefaultTimeStep == 2
TrajectoryLimit == 10

None == << >>
Some(x) == << x >>
Min(a, b) == IF a < b THEN a ELSE b
Max(a, b) == IF a > b THEN a ELSE b
Truthy(o) == o # None /\ o[1] # 0
(* Python's "a or b" on two Optional numbers *)
OrElse(a, b) == IF Truthy(a) THEN a ELSE b

-----------------------------------------------------------------------------
(* AltitudeKalmanFilter (kalman_filter.py) *)

(* 2x2 matrices are << <<a, b>>, <<c, d>> >> *)
MatMul(A, B) ==
    << << A[1][1] * B[1][1] + A[1][2] * B[2][1], A[1][1] * B[1][2] + A[1][2] * B[2][2] >>,
       << A[2][1] * B[1][1] + A[2][2] * B[2][1], A[2][1] * B[1][2] + A[2][2] * B[2][2] >> >>
MatAdd(A, B) ==
    << << A[1][1] + B[1][1], A[1][2] + B[1][2] >>,
       << A[2][1] + B[2][1], A[2][2] + B[2][2] >> >>
Transpose(A) == << << A[1][1], A[2][1] >>, << A[1][2], A[2][2] >> >>

(* A transition matrix that adds a second to every interval *)
FOffset(dt) == << << 1, dt + 1 >>, << 0, 1 >> >>

(* self.F with F[0, 1] = dt *)
F(dt) == << << 1, dt >>, << 0, 1 >> >>
(* self.Q = diag(1.0, 0.1), in tenths *)
Q == << << 10, 0 >>, << 0, 1 >> >>
(* A measurement noise twenty times larger *)
RLoose == 2000 * 10

(* self.R = 100.0, in tenths *)
R == 100 * 10
(* thousandths, the grid of the Kalman gain of the vertical rate *)
GainScale == 10 * 100

(* A filter that starts on the ground *)
NewFilterAtZero ==
    [ state |-> << 0, 0 >>,
      covariance |-> << << 1000 * 10, 0 >>, << 0, 100 * 10 >> >>,
      last_update_time |-> None,
      measurement_history |-> << >>,
      prediction_history |-> << >> ]

(* AltitudeKalmanFilter.__init__ *)
NewFilter ==
    [ state |-> << InitialAltitude, 0 >>,
      covariance |-> << << 1000 * 10, 0 >>, << 0, 100 * 10 >> >>,
      last_update_time |-> None,
      measurement_history |-> << >>,
      prediction_history |-> << >> ]

(* AltitudeKalmanFilter.predict: the filter after predict(dt); the method *)
(* returns its state[0], state[1].                                        *)
Predict(kf, dt) ==
    LET Fm == F(dt)
        st == << Fm[1][1] * kf.state[1] + Fm[1][2] * kf.state[2],
                 Fm[2][1] * kf.state[1] + Fm[2][2] * kf.state[2] >>
        cov == MatAdd(MatMul(MatMul(Fm, kf.covariance), Transpose(Fm)), Q)
    IN  [ kf EXCEPT !.state = st,
                    !.covariance = cov,
                    !.prediction_history =
                        Append(@, [altitude |-> st[1], vertical_rate |-> st[2]]) ]

(* AltitudeKalmanFilter.update(measured_altitude, measured_vertical_rate) *)
(* called at wall-clock time t.  With H = [1, 0] the gain is              *)
(* K = P[:, 0] / S and the covariance (I - K H) P is                      *)
(* P[i][j] - P[i][0] * P[0][j] / S, whose first row and column are        *)
(* P[i][j] * R / S (S = P[0][0] + R); likewise K[0] = 1 - R / S.  Both    *)
(* are computed in that form, which rounds once.                          *)
(* The correction of update (kalman_filter.py:75-87) applied to the       *)
(* predicted filter p, whose covariance is P: S is the innovation         *)
(* covariance and innovation the measurement residual.                    *)
Corrected(p, P, S, innovation, measured_altitude, measured_vertical_rate, t) ==
    [ p EXCEPT !.state =
                   << p.state[1] + innovation - (innovation * R) \div S,
                      IF measured_vertical_rate # None
                      THEN measured_vertical_rate[1]
                      ELSE p.state[2]
                           + (((P[2][1] * GainScale) \div S) * innovation) \div GainScale >>,
               !.covariance =
                   << << (P[1][1] * R) \div S, (P[1][2] * R) \div S >>,
                      << (P[2][1] * R) \div S, P[2][2] - (P[2][1] * P[1][2]) \div S >> >>,
               !.measurement_history =
                   Append(@, [altitude |-> measured_altitude,
                              vertical_rate |-> measured_vertical_rate]),
               !.last_update_time = Some(t) ]

(* update after its predict step: p is the predicted filter *)
Correct(p, measured_altitude, measured_vertical_rate, t) ==
    Corrected(p, p.covariance, p.covariance[1][1] + R, measured_altitude - p.state[1],
              measured_altitude, measured_vertical_rate, t)

(* the dt of update's predict step (kalman_filter.py:61-67) *)
ElapsedSince(kf, t) ==
    IF kf.last_update_time # None THEN t - kf.last_update_time[1] ELSE 1

Update(kf, measured_altitude, measured_vertical_rate, t) ==
    Correct(Predict(kf, ElapsedSince(kf, t)), measured_altitude, measured_vertical_rate, t)

(* A confidence that is not clamped *)
GetConfidenceUnclamped(kf) == 1000 * 10 - kf.covariance[1][1]

(* AltitudeKalmanFilter.get_confidence, in ten-thousandths: the altitude  *)
(* variance is in tenths, so variance / 1000.0 is covariance / 10000.     *)
ConfidenceScale == 1000 * 10
GetConfidence(kf) ==
    Max(0, Min(ConfidenceScale, ConfidenceScale - kf.covariance[1][1]))

(* AltitudeKalmanFilter.reset *)
Reset(kf) ==
    [ state |-> << InitialAltitude, 0 >>,
      covariance |-> << << 1000 * 10, 0 >>, << 0, 100 * 10 >> >>,
      last_update_time |-> None,
      measurement_history |-> << >>,
      prediction_history |-> << >> ]

-----------------------------------------------------------------------------
(* The altitude ladder of FlightService (flights.py) *)

(* A range test without the upper bound *)
IsReasonableAltitudeNoCeiling(altitude) == 0 <= altitude

(* FlightService._is_reasonable_altitude *)
IsReasonableAltitude(altitude) == 0 <= altitude /\ altitude <= MaxReasonableAltitude

(* The backwards scan of _integrate_vertical_rate over history[1..i]:      *)
(* the most recent entry with a barometric, else geometric, altitude and   *)
(* the number of entries passed over before it.  Every entry of a key's    *)
(* history carries that key, so the icao24 test of the loop always holds.  *)
RECURSIVE ScanAltitude(_, _, _)
ScanAltitude(history, i, time_since_altitude) ==
    IF i = 0 THEN [last_altitude |-> None, time_since_altitude |-> time_since_altitude]
    ELSE IF history[i].baro_altitude # None
         THEN [last_altitude |-> history[i].baro_altitude,
               time_since_altitude |-> time_since_altitude]
    ELSE IF history[i].geo_altitude # None
         THEN [last_altitude |-> history[i].geo_altitude,
               time_since_altitude |-> time_since_altitude]
    ELSE ScanAltitude(history, i - 1, time_since_altitude + 1)

(* An integration that may go below ground *)
IntegrateVerticalRateUnclamped(flight, history) ==
    IF history = << >> THEN DefaultCruiseAltitude
    ELSE LET scan == ScanAltitude(history, Len(history), 0)
             vertical_rate == IF Truthy(flight.vertical_rate)
                              THEN flight.vertical_rate[1] ELSE 0
         IN  IF scan.last_altitude = None THEN DefaultCruiseAltitude
             ELSE scan.last_altitude[1] + vertical_rate * scan.time_since_altitude

(* FlightService._integrate_vertical_rate *)
IntegrateVerticalRate(flight, history) ==
    IF history = << >> THEN DefaultCruiseAltitude
    ELSE LET scan == ScanAltitude(history, Len(history), 0)
             vertical_rate == IF Truthy(flight.vertical_rate)
                              THEN flight.vertical_rate[1] ELSE 0
         IN  IF scan.last_altitude = None THEN DefaultCruiseAltitude
             ELSE Max(0, scan.last_altitude[1] + vertical_rate * scan.time_since_altitude)

(* Bands whose upper edges belong to them *)
EstimateFromVelocityInclusive(velocity) ==
    IF velocity <= 50 THEN 0
    ELSE IF velocity <= 150 THEN 5000
    ELSE IF velocity <= 250 THEN 15000
    ELSE IF velocity <= 350 THEN 25000
    ELSE IF velocity <= 450 THEN 35000
    ELSE 40000

(* FlightService._estimate_from_velocity *)
EstimateFromVelocity(velocity) ==
    IF velocity < 50 THEN 0
    ELSE IF velocity < 150 THEN 5000
    ELSE IF velocity < 250 THEN 15000
    ELSE IF velocity < 350 THEN 25000
    ELSE IF velocity < 450 THEN 35000
    ELSE 40000

(* FlightService._calculate_bearing, in whole degrees, for two points of   *)
(* one meridian (the positions of the model share their longitude): then   *)
(* y = 0 and x = sin(lat2 - lat1), so atan2 gives 0 northbound and for     *)
(* equal points, and 180 southbound.                                       *)
CalculateBearing(lat1, lon1, lat2, lon2) ==
    IF lat2 >= lat1 THEN 0 ELSE 180

RECURSIVE SumSeq(_)
SumSeq(s) == IF s = << >> THEN 0 ELSE Head(s) + SumSeq(Tail(s))

(* FlightService._analyze_trajectory: avg_change as the fraction          *)
(* total / n (sum(bearing_changes) / len(bearing_changes)); 0.0 is 0 / 1. *)
AnalyzeTrajectory(positions) ==
    IF Len(positions) < 2 THEN [total |-> 0, n |-> 1]
    ELSE LET bearings == [i \in 1..(Len(positions) - 1) |->
                             CalculateBearing(positions[i][1], positions[i][2],
                                              positions[i + 1][1], positions[i + 1][2])]
         IN  IF Len(bearings) < 2 THEN [total |-> 0, n |-> 1]
             ELSE LET bearing_changes == [i \in 1..(Len(bearings) - 1) |->
                                             bearings[i + 1] - bearings[i]]
                  IN  [total |-> SumSeq(bearing_changes), n |-> Len(bearing_changes)]

(* history[-5:] *)
LastFive(history) ==
    IF Len(history) <= 5 THEN history ELSE SubSeq(history, Len(history) - 4, Len(history))

RECURSIVE RecentPositions(_)
RecentPositions(h) ==
    IF h = << >> THEN << >>
    ELSE IF Head(h).latitude # None /\ Head(h).longitude # None
         THEN << << Head(h).latitude[1], Head(h).longitude[1] >> >> \o RecentPositions(Tail(h))
         ELSE RecentPositions(Tail(h))

(* A last step that has no default: -1 unless the trajectory tells a    *)
(* climb or a descent                                                   *)
EstimateFromFlightPhaseNoDefault(flight, history) ==
    IF Len(RecentPositions(LastFive(history))) < 2 THEN -1
    ELSE IF 10 * AnalyzeTrajectory(RecentPositions(LastFive(history))).total
               > AnalyzeTrajectory(RecentPositions(LastFive(history))).n THEN 20000
    ELSE IF 10 * AnalyzeTrajectory(RecentPositions(LastFive(history))).total
               < 0 - AnalyzeTrajectory(RecentPositions(LastFive(history))).n THEN 30000
    ELSE -1

(* FlightService._estimate_from_flight_phase *)
EstimateFromFlightPhase(flight, history) ==
    IF history = << >> THEN DefaultCruiseAltitude
    ELSE LET recent_positions == RecentPositions(LastFive(history))
         IN  IF Len(recent_positions) < 2 THEN DefaultCruiseAltitude
             ELSE LET altitude_change == AnalyzeTrajectory(recent_positions)
                  (* altitude_change > 0.1, altitude_change < -0.1 *)
                  IN  IF 10 * altitude_change.total > altitude_change.n THEN 20000
                      ELSE IF 10 * altitude_change.total < 0 - altitude_change.n THEN 30000
                      ELSE DefaultCruiseAltitude

(* Method 1 with the two measurements tried in the other order *)
MeasuredAltitudeGeoFirst(flight) ==
    IF flight.geo_altitude # None /\ flight.geo_altitude[1] > 0
    THEN [source |-> "geo", altitude |-> flight.geo_altitude]
    ELSE IF flight.baro_altitude # None /\ flight.baro_altitude[1] > 0
    THEN [source |-> "baro", altitude |-> flight.baro_altitude]
    ELSE [source |-> "none", altitude |-> None]

(* Method 1 of _predict_missing_altitude (lines 335-342): the measured   *)
(* altitude it accepts, barometric before geometric, each only if > 0.   *)
MeasuredAltitude(flight) ==
    IF flight.baro_altitude # None /\ flight.baro_altitude[1] > 0
    THEN [source |-> "baro", altitude |-> flight.baro_altitude]
    ELSE IF flight.geo_altitude # None /\ flight.geo_altitude[1] > 0
    THEN [source |-> "geo", altitude |-> flight.geo_altitude]
    ELSE [source |-> "none", altitude |-> None]

(* FlightService._predict_missing_altitude at wall-clock time t: the      *)
(* altitude it returns, the filter it leaves behind and (method) which    *)
(* return statement produced the value.                                   *)
PredictMissingAltitude(flight, kalman_filter, history, t) ==
    LET measured == MeasuredAltitude(flight)
    IN  IF measured.altitude # None
        THEN [altitude |-> measured.altitude[1],
              kf |-> Update(kalman_filter, measured.altitude[1], flight.vertical_rate, t),
              method |-> measured.source]
        ELSE LET p == Predict(kalman_filter, 1)
                 integrated_altitude == IntegrateVerticalRate(flight, history)
             IN  IF IsReasonableAltitude(p.state[1])
                 THEN [altitude |-> p.state[1], kf |-> p, method |-> "kalman"]
                 ELSE IF flight.vertical_rate # None
                         /\ IsReasonableAltitude(integrated_altitude)
                 THEN [altitude |-> integrated_altitude, kf |-> p, method |-> "integrated"]
                 ELSE IF flight.velocity # None
                         /\ IsReasonableAltitude(EstimateFromVelocity(flight.velocity[1]))
                 THEN [altitude |-> EstimateFromVelocity(flight.velocity[1]), kf |-> p,
                       method |-> "velocity"]
                 ELSE [altitude |-> EstimateFromFlightPhase(flight, history), kf |-> p,
                       method |-> "phase"]

-----------------------------------------------------------------------------
(* FlightTrajectoryPredictor (kalman_filter.py).  A 3D position is kept   *)
(* relative to the aircraft: [radius, offset, factor] stands for the      *)
(* Cartesian vector (radius * u + offset) * factor / 1000, u being the    *)
(* unit vector of the aircraft's latitude and longitude.  Latitude,       *)
(* longitude, altitude and distance are computed for positions on the     *)
(* aircraft's own vertical (offset 0); any other position is carried as   *)
(* Displaced.  The bearing of a point is not modelled.                    *)

earth_radius == 6371000

ZeroVector == << 0, 0, 0 >>
Displaced(pos) == [displaced |-> pos]

(* _lat_lon_alt_to_3d of the aircraft's own latitude and longitude *)
LatLonAltTo3d(alt) == [radius |-> earth_radius + alt, offset |-> ZeroVector, factor |-> 1000]

(* math.cos and math.sin of a track that is a multiple of 90 degrees *)
CosDegrees(track) == IF track = 0 THEN 1 ELSE IF track = 180 THEN -1 ELSE 0
SinDegrees(track) == IF track = 90 THEN 1 ELSE IF track = 270 THEN -1 ELSE 0

(* _calculate_velocity_vector *)
CalculateVelocityVector(velocity, track, vertical_rate) ==
    << velocity * CosDegrees(track), velocity * SinDegrees(track), vertical_rate >>

(* _get_altitude_correction_factor, in thousandths *)
GetAltitudeCorrectionFactor(altitude) ==
    IF altitude < 1000 THEN 1000
    ELSE IF altitude < 5000 THEN 1001
    ELSE IF altitude < 15000 THEN 1002
    ELSE IF altitude < 30000 THEN 1003
    ELSE 1004

(* _predict_position_enhanced up to the scaling by altitude_factor *)
PredictPositionEnhanced(initial_pos, velocity_vector, time, altitude, speed) ==
    [ initial_pos EXCEPT
          !.offset = << @[1] + velocity_vector[1] * time,
                        @[2] + velocity_vector[2] * time,
                        @[3] + velocity_vector[3] * time >>,
          !.factor = GetAltitudeCorrectionFactor(altitude) ]

(* np.linalg.norm of a position on the aircraft's vertical, after the     *)
(* projection back to the surface of _predict_position_enhanced           *)
(* (kalman_filter.py:238-242)                                             *)
PositionNorm(pos) ==
    Max(earth_radius, pos.radius + (pos.radius * (pos.factor - 1000)) \div 1000)

(* _3d_to_lat_lon_alt of the position predicted for an aircraft at        *)
(* (lat, lon)                                                             *)
ThreeDToLatLonAlt(pos, lat, lon) ==
    IF pos.offset = ZeroVector
    THEN [latitude |-> lat, longitude |-> lon,
          altitude |-> PositionNorm(pos) - earth_radius]
    ELSE [latitude |-> Displaced(pos), longitude |-> Displaced(pos),
          altitude |-> Displaced(pos)]

(* _calculate_distance between the aircraft at altitude alt and the       *)
(* position predicted for it                                              *)
CalculateDistance(alt, pos) ==
    IF pos.offset = ZeroVector
    THEN LET vertical_distance == PositionNorm(pos) - earth_radius - alt
         IN  IF vertical_distance < 0 THEN -vertical_distance ELSE vertical_distance
    ELSE Displaced(pos)

(* A range that includes its stop value *)
RECURSIVE ARangeInclusive(_, _, _)
ARangeInclusive(start, stop, step) ==
    IF start <= stop THEN << start >> \o ARangeInclusive(start + step, stop, step)
    ELSE << >>

(* np.arange(start, stop, step) for a positive step *)
RECURSIVE ARange(_, _, _)
ARange(start, stop, step) ==
    IF start < stop THEN << start >> \o ARange(start + step, stop, step)
    ELSE << >>

(* One trajectory_point of predict_trajectory (kalman_filter.py:166-185) *)
TrajectoryPoint(lat, lon, alt, pos, t) ==
    [ latitude |-> ThreeDToLatLonAlt(pos, lat, lon).latitude,
      longitude |-> ThreeDToLatLonAlt(pos, lat, lon).longitude,
      altitude |-> ThreeDToLatLonAlt(pos, lat, lon).altitude,
      time_offset |-> t,
      distance_from_current |-> CalculateDistance(alt, pos) ]

(* The loop of predict_trajectory over the time offsets *)
TrajectoryPoints(lat, lon, alt, velocity, velocity_vector, offsets) ==
    [ i \in 1..Len(offsets) |->
        TrajectoryPoint(lat, lon, alt,
                        PredictPositionEnhanced(LatLonAltTo3d(alt), velocity_vector,
                                                offsets[i], alt, velocity),
                        offsets[i]) ]

(* math.radians(None) raises when the flight has no position *)
PredictTrajectoryRaises(flight) == flight.latitude = None \/ flight.longitude = None

(* FlightTrajectoryPredictor.predict_trajectory of a flight that has a    *)
(* position                                                               *)
PredictTrajectory(flight, prediction_time, time_step) ==
    TrajectoryPoints(flight.latitude[1], flight.longitude[1],
                     OrElse(OrElse(flight.baro_altitude, flight.geo_altitude),
                            Some(DefaultCruiseAltitude))[1],
                     OrElse(flight.velocity, Some(0))[1],
                     CalculateVelocityVector(OrElse(flight.velocity, Some(0))[1],
                                             OrElse(flight.true_track, Some(0))[1],
                                             OrElse(flight.vertical_rate, Some(0))[1]),
                     ARange(0, prediction_time, time_step))

-----------------------------------------------------------------------------
(* Enrichment and parsing (flights.py) *)

(* str.strip on the callsigns of the model *)
Strip(callsign) ==
    IF callsign = "    " THEN ""
    ELSE IF callsign = "UAL12 " THEN "UAL12"
    ELSE callsign

(* A callsign that arrives as a JSON number: it is true and has no strip *)
(* method, so state[1].strip() raises AttributeError (line 164)          *)
NumberCallsign == "<number>"
FlightOfRaises(state) == state.callsign = Some(NumberCallsign)

(* The flight dict _parse_flight_data builds from one state vector.  The *)
(* fields no code of the service reads (origin_country, time_position,   *)
(* last_contact, sensors, squawk, spi, position_source) are left out.    *)
FlightOf(state) ==
    [ icao24 |-> state.icao24,
      callsign |-> IF state.callsign # None /\ state.callsign[1] # ""
                   THEN Strip(state.callsign[1]) ELSE "",
      longitude |-> state.longitude,
      latitude |-> state.latitude,
      baro_altitude |-> state.baro_altitude,
      on_ground |-> state.on_ground,
      velocity |-> state.velocity,
      true_track |-> state.true_track,
      vertical_rate |-> state.vertical_rate,
      geo_altitude |-> state.geo_altitude ]

(* A history that drops the newest entry once it is full *)
AppendHistoryKeepOldest(h, flight) ==
    IF Len(h) >= HistoryLimit THEN h ELSE Append(h, flight)

(* self.flight_history[flight_id].append(flight), cut to the last 10 *)
AppendHistory(h, flight) ==
    LET a == Append(h, flight)
    IN  IF Len(a) > HistoryLimit THEN SubSeq(a, Len(a) - HistoryLimit + 1, Len(a)) ELSE a

(* dict[key] = value, also for a new key *)
Put(d, key, value) == [k \in DOMAIN d \cup {key} |-> IF k = key THEN value ELSE d[k]]

(* A forecast that is kept after the forecaster raised *)
TrajectoryOnErrorKept == << [time_offset |-> 0] >>

(* The except clause of _enhance_flight_data (lines 324-326) *)
TrajectoryOnError == << >>

(* trajectory[:10] *)
FirstPoints(trajectory) == SubSeq(trajectory, 1, Min(TrajectoryLimit, Len(trajectory)))

(* The try statement of _enhance_flight_data (lines 320-326).  The      *)
(* forecaster reads only fields enhanced_flight copies from flight.      *)
PredictedTrajectory(flight) ==
    IF PredictTrajectoryRaises(flight) THEN TrajectoryOnError
    ELSE FirstPoints(PredictTrajectory(flight, DefaultPredictionTime, DefaultTimeStep))

(* The enhanced flight (lines 311-328), r being what the altitude ladder *)
(* resolved and filters and history the dicts after lines 296-306       *)
EnhancedFlight(flight, filters, history, r) ==
        [ flight |-> [ icao24 |-> flight.icao24,
                       callsign |-> flight.callsign,
                       longitude |-> flight.longitude,
                       latitude |-> flight.latitude,
                       baro_altitude |-> flight.baro_altitude,
                       on_ground |-> flight.on_ground,
                       velocity |-> flight.velocity,
                       true_track |-> flight.true_track,
                       vertical_rate |-> flight.vertical_rate,
                       geo_altitude |-> flight.geo_altitude,
                       predicted_altitude |-> r.altitude,
                       altitude_confidence |-> GetConfidence(r.kf),
                       has_predicted_altitude |->
                           (flight.baro_altitude = None /\ flight.geo_altitude = None),
                       predicted_trajectory |-> PredictedTrajectory(flight) ],
          method |-> r.method,
          filters |-> Put(filters, flight.icao24, r.kf),
          history |-> history ]

(* Lines 309-328 of _enhance_flight_data, filters and history being the  *)
(* dicts after lines 296-306                                             *)
EnhanceTracked(flight, filters, history, t) ==
    EnhancedFlight(flight, filters, history,
                   PredictMissingAltitude(flight, filters[flight.icao24],
                                          history[flight.icao24], t))

(* Filters that are replaced by a new one on every observation *)
WithFreshFilter(filters, flight_id) == Put(filters, flight_id, NewFilter)

(* self.altitude_filters after lines 296-297 *)
WithFilter(filters, flight_id) ==
    IF flight_id \in DOMAIN filters THEN filters ELSE Put(filters, flight_id, NewFilter)

(* self.flight_history after lines 300-306 *)
WithHistory(history, flight) ==
    Put(history, flight.icao24,
        AppendHistory(IF flight.icao24 \in DOMAIN history THEN history[flight.icao24]
                      ELSE << >>, flight))

(* FlightService._enhance_flight_data at wall-clock time t: the enhanced *)
(* flight and the filters and histories it leaves behind.  (method is    *)
(* not a field of the program's record: it names the ladder step taken.) *)
EnhanceFlightData(flight, filters, history, t) ==
    EnhanceTracked(flight, WithFilter(filters, flight.icao24),
                   WithHistory(history, flight), t)

(* A validity test that lets aircraft on the ground through *)
IsValidFlightIgnoringGround(flight) ==
    LET altitude == OrElse(flight.baro_altitude, flight.geo_altitude)
    IN  /\ flight.latitude # None /\ flight.longitude # None
        /\ flight.callsign # ""
        /\ altitude # None /\ altitude[1] >= MinValidAltitude

(* FlightService._is_valid_flight *)
IsValidFlight(flight) ==
    LET altitude == OrElse(flight.baro_altitude, flight.geo_altitude)
    IN  /\ flight.latitude # None /\ flight.longitude # None
        /\ ~flight.on_ground
        /\ flight.callsign # ""
        /\ altitude # None /\ altitude[1] >= MinValidAltitude

(* The loop of FlightService._parse_flight_data over data["states"] at     *)
(* time t, continuing from the flights collected so far: the returned     *)
(* list, the filters and histories left behind, and (enhanced) every      *)
(* flight _enhance_flight_data returned with the ladder step it took and  *)
(* the aircraft's filter before and after the call.  No statement of the  *)
(* loop is in a try: when building the dict raises, the loop ends there   *)
(* (raised) and the exception leaves _parse_flight_data.                  *)
RECURSIVE ParseStates(_, _, _, _, _, _)

(* Lines 183-187 for the first of states, e being what                    *)
(* _enhance_flight_data returned for it, and then the rest of the loop    *)
ParseRest(states, flights, enhanced, filters, history, t, e) ==
    ParseStates(Tail(states),
                IF IsValidFlight(e.flight) THEN Append(flights, e.flight) ELSE flights,
                Append(enhanced,
                       [flight |-> e.flight, method |-> e.method,
                        before |-> IF Head(states).icao24 \in DOMAIN filters
                                   THEN filters[Head(states).icao24]
                                   ELSE NewFilter,
                        after |-> e.filters[Head(states).icao24]]),
                e.filters, e.history, t)

ParseStates(states, flights, enhanced, filters, history, t) ==
    IF states = << >>
    THEN [flights |-> flights, enhanced |-> enhanced, filters |-> filters,
          history |-> history, raised |-> FALSE]
    ELSE IF Head(states).nfields < MinStateFields
    THEN ParseStates(Tail(states), flights, enhanced, filters, history, t)
    ELSE IF FlightOfRaises(Head(states))
    THEN [flights |-> flights, enhanced |-> enhanced, filters |-> filters,
          history |-> history, raised |-> TRUE]
    ELSE ParseRest(states, flights, enhanced, filters, history, t,
                   EnhanceFlightData(FlightOf(Head(states)), filters, history, t))

(* FlightService._parse_flight_data *)
ParseFlightData(states, filters, history, t) ==
    ParseStates(states, << >>, << >>, filters, history, t)

-----------------------------------------------------------------------------
(* Inputs of the model *)

(* The tasks that call get_sf_bay_flights concurrently: the background   *)
(* refresh loop (main.py, _background_refresh), which never forces, and  *)
(* a request handler (GET /api/flights, /api/flights/refresh, /ws).      *)
Callers == { "refresh", "handler" }
Forces(c) == IF c = "refresh" THEN { FALSE } ELSE BOOLEAN

(* One state vector of the upstream answer; nfields is len(state). *)
BaseState ==
    [ nfields |-> 17, icao24 |-> "a", callsign |-> Some("UAL12 "),
      longitude |-> Some(-1224), latitude |-> Some(377),
      baro_altitude |-> Some(12000), on_ground |-> FALSE,
      velocity |-> Some(300), true_track |-> Some(90),
      vertical_rate |-> Some(0), geo_altitude |-> None ]

NoAltitude == [BaseState EXCEPT !.baro_altitude = None, !.geo_altitude = None]

(* data["states"] of the answers the orchestrator specification draws from *)
Batches ==
    { << >>,
      << BaseState, [NoAltitude EXCEPT !.icao24 = "b", !.geo_altitude = Some(9000)] >> }

(* The X-Rate-Limit-Remaining and X-Rate-Limit-Retry-After-Seconds headers *)
Absent == [kind |-> "absent"]
Garbage == [kind |-> "garbage"]
IntHeader(v) == [kind |-> "int", v |-> v]
RemainingHeaders == { Absent, Garbage, IntHeader(0), IntHeader(5000) }
RetryHeaders == { Absent, Garbage, IntHeader(30) }
Statuses == { 200, 429, 500 }

-----------------------------------------------------------------------------
(* The orchestrator: FlightService.get_sf_bay_flights and what it awaits *)

(* The outcome of a call of get_sf_bay_flights: a returned list or an    *)
(* exception raised to the caller                                       *)
Returned(value) == [raised |-> FALSE, value |-> value]
Raised == [raised |-> TRUE, value |-> << >>]

(* self._cache or [] *)
CacheOrEmpty == IF cache # None THEN cache[1] ELSE << >>

(* A freshness test with the comparison turned around *)
CacheFreshInverted(force_refresh) ==
    /\ ~force_refresh
    /\ cache # None
    /\ now - cache_timestamp > cache_duration

(* The freshness test of get_sf_bay_flights (lines 58-60) *)
CacheFresh(force_refresh) ==
    /\ ~force_refresh
    /\ cache # None
    /\ now - cache_timestamp < cache_duration

(* An admission test that forgets the daily credit limit *)
CanMakeRequestIgnoringCredits ==
    IF now - last_request_time < min_request_interval THEN FALSE
    ELSE IF rate_limit_remaining <= 0 THEN FALSE
    ELSE TRUE

(* FlightService._can_make_request *)
CanMakeRequest ==
    IF now - last_request_time < min_request_interval THEN FALSE
    ELSE IF daily_credits_used >= max_daily_credits THEN FALSE
    ELSE IF rate_limit_remaining <= 0 THEN FALSE
    ELSE TRUE

(* FlightService._can_make_request evaluated d seconds from now, when    *)
(* nothing else has happened in between                                  *)
CanMakeRequestAfter(d) ==
    IF now + d - last_request_time < min_request_interval THEN FALSE
    ELSE IF daily_credits_used >= max_daily_credits THEN FALSE
    ELSE IF rate_limit_remaining <= 0 THEN FALSE
    ELSE TRUE

(* get_sf_bay_flights up to its await (lines 53-69): serve the fresh     *)
(* cache, refuse, or issue the upstream request and suspend.             *)
GetSfBayFlights(c, force_refresh) ==
    /\ pc[c] = "idle"
    /\ IF CacheFresh(force_refresh)
       THEN /\ ev' = [op |-> "cached", force |-> force_refresh, ret |-> Returned(cache[1])]
            /\ UNCHANGED << pc, current_time >>
       ELSE IF ~CanMakeRequest
       THEN /\ ev' = [op |-> "refused", force |-> force_refresh,
                      ret |-> Returned(CacheOrEmpty)]
            /\ UNCHANGED << pc, current_time >>
       ELSE /\ pc' = [pc EXCEPT ![c] = "request"]
            /\ current_time' = [current_time EXCEPT ![c] = now]
            /\ ev' = [op |-> "request", force |-> force_refresh]
    /\ UNCHANGED << now, orch, altitude_filters, flight_history, fetched, polls >>

(* A header update that never raises the ceiling *)
UpdateRateLimitInfoFixedCeiling(header) ==
    IF header.kind = "int"
    THEN << header.v, DefaultCredits >>
    ELSE << rate_limit_remaining, max_daily_credits >>

(* FlightService._update_rate_limit_info: the new                        *)
(* (_rate_limit_remaining, _max_daily_credits)                           *)
UpdateRateLimitInfo(header) ==
    IF header.kind = "int"
    THEN << header.v, IF header.v > DefaultCredits THEN HighCredits ELSE DefaultCredits >>
    ELSE << rate_limit_remaining, max_daily_credits >>

(* A completion that extends the cached list in place instead of       *)
(* replacing it                                                         *)
CompleteInPlace(c, flights) ==
    /\ IF flights # None
       THEN /\ cache' = Some(CacheOrEmpty \o flights[1])
            /\ cache_timestamp' = current_time[c]
            /\ last_request_time' = current_time[c]
       ELSE UNCHANGED << cache, cache_timestamp, last_request_time >>
    /\ pc' = [pc EXCEPT ![c] = "idle"]
    /\ current_time' = [current_time EXCEPT ![c] = 0]

(* A completion that replaces the snapshot without noting the time of   *)
(* the request                                                          *)
CompleteKeepingRequestTime(c, flights) ==
    /\ IF flights # None
       THEN /\ cache' = Some(flights[1])
            /\ cache_timestamp' = current_time[c]
            /\ UNCHANGED last_request_time
       ELSE UNCHANGED << cache, cache_timestamp, last_request_time >>
    /\ pc' = [pc EXCEPT ![c] = "idle"]
    /\ current_time' = [current_time EXCEPT ![c] = 0]

(* get_sf_bay_flights after its await (lines 71-79), flights being what  *)
(* _fetch_flights_from_api returned (Optional): the state it leaves; the *)
(* local current_time goes out of scope                                  *)
Complete(c, flights) ==
    /\ IF flights # None
       THEN /\ cache' = Some(flights[1])
            /\ cache_timestamp' = current_time[c]
            /\ last_request_time' = current_time[c]
       ELSE UNCHANGED << cache, cache_timestamp, last_request_time >>
    /\ pc' = [pc EXCEPT ![c] = "idle"]
    /\ current_time' = [current_time EXCEPT ![c] = 0]

(* ... and what it returns to its caller (lines 76, 79) *)
Outcome(flights) ==
    IF flights # None THEN Returned(flights[1]) ELSE Returned(CacheOrEmpty)

(* No except clause: the exception reaches the caller *)
ExceptionPropagates == Raised

(* The except clause of _fetch_flights_from_api (lines 124-126) turns an *)
(* exception raised in the try into the result None                      *)
ExceptionOutcome == Outcome(None)

(* A deadline that forgets to add the current time *)
ResetDeadlineRelative(retry_after) == Some(retry_after)

(* The reset deadline after a 429 (lines 117-119) *)
ResetDeadline(retry_after) == Some(now + retry_after)

(* The response status and headers arrive (lines 107-111, 116-123).  A   *)
(* Retry-After header that int() cannot parse raises inside the try.     *)
ResponseHeaders(c, status, remaining, retry) ==
    /\ pc[c] = "request"
    /\ rate_limit_remaining' = UpdateRateLimitInfo(remaining)[1]
    /\ max_daily_credits' = UpdateRateLimitInfo(remaining)[2]
    /\ IF status = 200
       THEN /\ pc' = [pc EXCEPT ![c] = "body"]
            /\ ev' = [op |-> "headers", remaining |-> remaining]
            /\ UNCHANGED << cache, cache_timestamp, last_request_time,
                            rate_limit_reset_time, current_time >>
       ELSE IF status = 429
       THEN IF retry.kind = "garbage"
            THEN /\ Complete(c, None)
                 /\ ev' = [op |-> "exception", remaining |-> remaining,
                           ret |-> ExceptionOutcome]
                 /\ UNCHANGED rate_limit_reset_time
            ELSE /\ rate_limit_reset_time' =
                        ResetDeadline(IF retry.kind = "int" THEN retry.v
                                      ELSE DefaultRetryAfter)
                 /\ Complete(c, None)
                 /\ ev' = [op |-> "throttled", retry |-> retry, remaining |-> remaining,
                           ret |-> Outcome(None)]
       ELSE /\ Complete(c, None)
            /\ ev' = [op |-> "failed", remaining |-> remaining, ret |-> Outcome(None)]
            /\ UNCHANGED rate_limit_reset_time
    /\ UNCHANGED << now, daily_credits_used, altitude_filters, flight_history,
                    fetched, polls >>

(* A successful fetch that is counted twice *)
CreditsCountedTwice == daily_credits_used + 2

(* A successful fetch that is not counted *)
CreditsNotCounted == daily_credits_used

(* self._daily_credits_used += 1 (line 114) *)
CreditsAfterFetch == daily_credits_used + 1

(* The body of a 200 answer arrives and is parsed (lines 112-115, 71-76); *)
(* an exception that leaves _parse_flight_data is caught by the except    *)
(* clause of the fetch (lines 124-126)                                    *)
(* parsed being what the loop of _parse_flight_data left behind          *)
Parsed(c, states, parsed) ==
    /\ altitude_filters' = parsed.filters
    /\ flight_history' = parsed.history
    /\ IF parsed.raised
       THEN /\ Complete(c, None)
            /\ ev' = [op |-> "exception", ret |-> ExceptionOutcome]
            /\ UNCHANGED << fetched, daily_credits_used >>
       ELSE /\ fetched' = fetched \cup { parsed.flights }
            /\ Complete(c, Some(parsed.flights))
            /\ ev' = [op |-> "body", states |-> states,
                      ret |-> Outcome(Some(parsed.flights))]
            /\ daily_credits_used' = CreditsAfterFetch

(* The body of a 200 answer arrives (line 112) and is parsed *)
ResponseBody(c, states) ==
    /\ pc[c] = "body"
    /\ polls < MaxPolls
    /\ Parsed(c, states, ParseFlightData(states, altitude_filters, flight_history, now))
    /\ polls' = polls + 1
    /\ UNCHANGED << now, max_daily_credits, rate_limit_remaining, rate_limit_reset_time >>

(* session.get or response.json() raises (network error, invalid JSON) *)
FetchException(c) ==
    /\ pc[c] \in { "request", "body" }
    /\ Complete(c, None)
    /\ ev' = [op |-> "exception", ret |-> ExceptionOutcome]
    /\ UNCHANGED << now, daily_credits_used, max_daily_credits, rate_limit_remaining,
                    rate_limit_reset_time, altitude_filters, flight_history,
                    fetched, polls >>

(* A status whose admission flag forgets the daily credit limit *)
RateLimitStatusIgnoringCredits ==
    [ daily_credits_used |-> daily_credits_used,
      max_daily_credits |-> max_daily_credits,
      credits_remaining |-> rate_limit_remaining,
      can_make_request |-> CanMakeRequestIgnoringCredits,
      cache_age_seconds |-> IF cache_timestamp # 0 THEN Some(now - cache_timestamp) ELSE None,
      cache_fresh |-> cache_timestamp # 0 /\ now - cache_timestamp < cache_duration,
      next_request_available |-> Max(0, min_request_interval - (now - last_request_time)),
      rate_limit_reset_time |-> rate_limit_reset_time ]

(* The dict FlightService.get_rate_limit_status returns (lines 271-285); *)
(* cache_age is None while _cache_timestamp is 0                         *)
RateLimitStatus ==
    [ daily_credits_used |-> daily_credits_used,
      max_daily_credits |-> max_daily_credits,
      credits_remaining |-> rate_limit_remaining,
      can_make_request |-> CanMakeRequest,
      cache_age_seconds |-> IF cache_timestamp # 0 THEN Some(now - cache_timestamp) ELSE None,
      cache_fresh |-> cache_timestamp # 0 /\ now - cache_timestamp < cache_duration,
      next_request_available |-> Max(0, min_request_interval - (now - last_request_time)),
      rate_limit_reset_time |-> rate_limit_reset_time ]

(* GET /api/rate-limit: get_rate_limit_status(), which assigns nothing *)
GetRateLimitStatus ==
    /\ ev' = [op |-> "status", ret |-> RateLimitStatus]
    /\ UNCHANGED << now, orch, altitude_filters, flight_history, pc, current_time,
                    fetched, polls >>

(* Time passes; the clock is read every TickSteps seconds *)
TickSteps == { 3 }
Tick(d) ==
    /\ now + d <= MaxTime
    /\ now' = now + d
    /\ ev' = [op |-> "tick"]
    /\ UNCHANGED << orch, altitude_filters, flight_history, pc, current_time,
                    fetched, polls >>

(* The state after FlightService.__init__.  The clock is the epoch      *)
(* clock: the two timestamps of 0 are long ago.                          *)
InitCold ==
    /\ now = cache_duration
    /\ cache = None
    /\ cache_timestamp = 0
    /\ last_request_time = 0
    /\ daily_credits_used = 0
    /\ max_daily_credits = DefaultCredits
    /\ rate_limit_remaining = DefaultCredits
    /\ rate_limit_reset_time = None
    /\ altitude_filters = << >>
    /\ flight_history = << >>
    /\ pc = [c \in Callers |-> "idle"]
    /\ current_time = [c \in Callers |-> 0]
    /\ fetched = { }
    /\ polls = 0
    /\ ev = [op |-> "init"]

(* A service late in its day: it has made one fetch less than the        *)
(* default credit ceiling allows, each answered with no states and       *)
(* without the remaining-credits header, the last of them at time 0.     *)
InitWarm ==
    /\ now = cache_duration
    /\ cache = Some(<< >>)
    /\ cache_timestamp = 0
    /\ last_request_time = 0
    /\ daily_credits_used = DefaultCredits - 1
    /\ max_daily_credits = DefaultCredits
    /\ rate_limit_remaining = DefaultCredits
    /\ rate_limit_reset_time = None
    /\ altitude_filters = << >>
    /\ flight_history = << >>
    /\ pc = [c \in Callers |-> "idle"]
    /\ current_time = [c \in Callers |-> 0]
    /\ fetched = { << >> }
    /\ polls = 0
    /\ ev = [op |-> "init"]

Init == InitCold \/ InitWarm

Next ==
    \/ \E c \in Callers : \E force_refresh \in Forces(c) : GetSfBayFlights(c, force_refresh)
    \/ \E c \in Callers, status \in Statuses, remaining \in RemainingHeaders,
          retry \in RetryHeaders : ResponseHeaders(c, status, remaining, retry)
    \/ \E c \in Callers, states \in Batches : ResponseBody(c, states)
    \/ \E c \in Callers : FetchException(c)
    \/ GetRateLimitStatus
    \/ \E d \in TickSteps : Tick(d)

Spec == Init /\ [][Next]_vars

-----------------------------------------------------------------------------
(* The enrichment pass on its own: _parse_flight_data applied, poll     *)
(* after poll, to answers drawn from ParseBatches, PollGap seconds apart *)

NoSpeed == [NoAltitude EXCEPT !.velocity = None, !.vertical_rate = None]

ParseStates1 ==
    { BaseState,
      [BaseState EXCEPT !.baro_altitude = Some(60000)],
      [BaseState EXCEPT !.baro_altitude = Some(50)],
      [BaseState EXCEPT !.baro_altitude = Some(0)],
      [BaseState EXCEPT !.baro_altitude = None, !.geo_altitude = Some(11000)],
      [BaseState EXCEPT !.geo_altitude = Some(11000)],
      [BaseState EXCEPT !.vertical_rate = Some(-20000)],
      [BaseState EXCEPT !.on_ground = TRUE],
      [BaseState EXCEPT !.callsign = Some("    ")],
      [BaseState EXCEPT !.latitude = None],
      [BaseState EXCEPT !.nfields = 16],
      [BaseState EXCEPT !.icao24 = "b"],
      NoAltitude,
      [NoAltitude EXCEPT !.vertical_rate = None],
      [NoAltitude EXCEPT !.vertical_rate = Some(500)],
      NoSpeed,
      [NoSpeed EXCEPT !.latitude = Some(378)],
      [NoSpeed EXCEPT !.icao24 = "b"] }

ParseBatches ==
    { << >> } \cup { << s >> : s \in ParseStates1 }
        \cup { << BaseState, [NoAltitude EXCEPT !.icao24 = "b"] >>,
               << NoAltitude, BaseState >>,
               << [NoAltitude EXCEPT !.latitude = None], [BaseState EXCEPT !.icao24 = "b"] >> }

PollGaps == { 8 }

(* What one pass of _parse_flight_data leaves behind, parsed being the  *)
(* outcome of its loop                                                  *)
Polled(states, parsed) ==
    /\ altitude_filters' = parsed.filters
    /\ flight_history' = parsed.history
    /\ ev' = [op |-> "parse", states |-> states, enhanced |-> parsed.enhanced,
              flights |-> parsed.flights, filters |-> altitude_filters]

(* _parse_flight_data applied to one answer, gap seconds after the last *)
Polling(states, gap) ==
    /\ now' = now + gap
    /\ Polled(states, ParseFlightData(states, altitude_filters, flight_history, now + gap))
    /\ polls' = polls + 1
    /\ UNCHANGED << orch, pc, current_time, fetched >>

Poll(states, gap) == polls < MaxParsePolls /\ Polling(states, gap)

NextParse == \E states \in ParseBatches, gap \in PollGaps : Poll(states, gap)

SpecParse == InitCold /\ [][NextParse]_vars

-----------------------------------------------------------------------------
(* One AltitudeKalmanFilter driven by arbitrary calls of its methods      *)
(* (kalman_filter.py).  The filter is altitude_filters[FilterKey]; polls  *)
(* counts the calls made; now is the wall clock update reads.             *)

MaxFilterSteps == 4

FilterKey == "a"
PredictSteps == { 1, 2 }
UpdateAltitudes == { 12000, 30000 }
UpdateVerticalRates == { None, Some(-10) }
UpdateGaps == { 1, 8 }

TheFilter == altitude_filters[FilterKey]

InitFilter ==
    /\ now = cache_duration
    /\ cache = None
    /\ cache_timestamp = 0
    /\ last_request_time = 0
    /\ daily_credits_used = 0
    /\ max_daily_credits = DefaultCredits
    /\ rate_limit_remaining = DefaultCredits
    /\ rate_limit_reset_time = None
    /\ altitude_filters = Put(<< >>, FilterKey, NewFilter)
    /\ flight_history = << >>
    /\ pc = [c \in Callers |-> "idle"]
    /\ current_time = [c \in Callers |-> 0]
    /\ fetched = { }
    /\ polls = 0
    /\ ev = [op |-> "init"]

(* predict(dt); ev keeps the filter it was called on, what it returned    *)
(* and, when the call before it was a predict too, that call.             *)
PredictStep(dt) ==
    /\ polls < MaxFilterSteps
    /\ altitude_filters' = Put(altitude_filters, FilterKey, Predict(TheFilter, dt))
    /\ ev' = [op |-> "predict", dt |-> dt, before |-> TheFilter,
              ret |-> Predict(TheFilter, dt).state,
              prev |-> IF ev.op = "predict"
                       THEN Some([dt |-> ev.dt, before |-> ev.before])
                       ELSE None]
    /\ polls' = polls + 1
    /\ UNCHANGED << now, orch, flight_history, pc, current_time, fetched >>

(* update(measured_altitude, measured_vertical_rate), gap seconds after   *)
(* the call before it; ev keeps the confidence after it and after the     *)
(* update just before it, and (steady) whether every call since the       *)
(* filter was created or reset was an update with this altitude, each     *)
(* one second after the one before.                                       *)
UpdateStep(measured_altitude, measured_vertical_rate, gap) ==
    /\ polls < MaxFilterSteps
    /\ now' = now + gap
    /\ altitude_filters' =
           Put(altitude_filters, FilterKey,
               Update(TheFilter, measured_altitude, measured_vertical_rate, now'))
    /\ ev' = [op |-> "update", altitude |-> measured_altitude, gap |-> gap,
              confidence |-> GetConfidence(altitude_filters'[FilterKey]),
              prev |-> IF ev.op = "update"
                       THEN Some([altitude |-> ev.altitude,
                                  confidence |-> ev.confidence])
                       ELSE None,
              steady |-> IF ev.op \in { "init", "reset" } THEN TRUE
                         ELSE /\ ev.op = "update"
                              /\ ev.steady
                              /\ ev.altitude = measured_altitude
                              /\ gap = 1]
    /\ polls' = polls + 1
    /\ UNCHANGED << orch, flight_history, pc, current_time, fetched >>

(* reset() *)
ResetStep ==
    /\ polls < MaxFilterSteps
    /\ altitude_filters' = Put(altitude_filters, FilterKey, Reset(TheFilter))
    /\ ev' = [op |-> "reset"]
    /\ polls' = polls + 1
    /\ UNCHANGED << now, orch, flight_history, pc, current_time, fetched >>

NextFilter ==
    \/ \E dt \in PredictSteps : PredictStep(dt)
    \/ \E a \in UpdateAltitudes, vr \in UpdateVerticalRates, gap \in UpdateGaps :
          UpdateStep(a, vr, gap)
    \/ ResetStep

SpecFilter == InitFilter /\ [][NextFilter]_vars

-----------------------------------------------------------------------------
(* FlightTrajectoryPredictor.predict_trajectory called on its own; ev     *)
(* keeps the call and its result and, when the call before it was a       *)
(* forecast too, that call and its result.                                *)

ForecastFlights ==
    { FlightOf([BaseState EXCEPT !.baro_altitude = b, !.velocity = v,
                                 !.vertical_rate = vr]) :
        b \in { None, Some(500), Some(12000) },
        v \in { Some(0), Some(300) },
        vr \in { Some(0), Some(-10) } }

(* << prediction_time, time_step >> *)
ForecastTimes == { << 0, 2 >>, << 5, 2 >>, << 6, 2 >>, << 6, 3 >>, << 60, 2 >> }

ForecastStep(flight, prediction_time, time_step) ==
    /\ ev' = [op |-> "forecast", flight |-> flight,
              prediction_time |-> prediction_time, time_step |-> time_step,
              trajectory |-> PredictTrajectory(flight, prediction_time, time_step),
              prev |-> IF ev.op = "forecast"
                       THEN Some([flight |-> ev.flight,
                                  prediction_time |-> ev.prediction_time,
                                  time_step |-> ev.time_step,
                                  trajectory |-> ev.trajectory])
                       ELSE None]
    /\ UNCHANGED << now, orch, altitude_filters, flight_history, pc, current_time,
                    fetched, polls >>

NextForecast ==
    \E flight \in ForecastFlights, times \in ForecastTimes :
        ForecastStep(flight, times[1], times[2])

SpecForecast == InitCold /\ [][NextForecast]_vars

-----------------------------------------------------------------------------
(* Claims about the orchestrator, checked under Spec *)

(* The steps that are a call of get_sf_bay_flights reaching its return   *)
(* or its await, and the steps in which a caller receives an outcome     *)
CallOps == { "cached", "refused", "request" }
ReturnOps == { "cached", "refused", "throttled", "failed", "exception", "body" }
InFlight == { c \in Callers : pc[c] # "idle" }

(* C1: at any time at most one upstream call is in flight: a call of     *)
(* get_sf_bay_flights made while a fetch is outstanding issues no second *)
(* upstream call.                                                        *)
C1_SingleFlight == Cardinality(InFlight) <= 1

(* C2: a non-forced call made while a snapshot exists and                *)
(* now - cache_timestamp < cache_duration returns that snapshot, issues  *)
(* no upstream call and leaves the snapshot, its timestamp, the credits  *)
(* used, the remaining credits, the ceiling and last_request_time        *)
(* unchanged.                                                            *)
C2_FreshCacheServed ==
    [][ ( /\ ev'.op \in CallOps
          /\ ~ev'.force
          /\ cache # None
          /\ now - cache_timestamp < cache_duration )
        => ( /\ ev'.op = "cached"
             /\ ev'.ret = Returned(cache[1])
             /\ pc' = pc
             /\ UNCHANGED orch ) ]_vars

C2_Witness ==
    /\ ev.op = "cached"
    /\ ev.ret.value # << >>
    /\ daily_credits_used = 1
    /\ now > cache_timestamp

(* C3: a call that is not served from the fresh cache while              *)
(* now - last_request_time < min_request_interval, or the credits used   *)
(* have reached the ceiling, or no credits remain, issues no upstream    *)
(* call, returns the last snapshot (empty if there is none) and leaves   *)
(* the credits used and the rest of the orchestrator's state unchanged.  *)
C3_RefusedServesStale ==
    [][ ( /\ ev'.op \in CallOps
          /\ ~(~ev'.force /\ cache # None /\ now - cache_timestamp < cache_duration)
          /\ \/ now - last_request_time < min_request_interval
             \/ daily_credits_used >= max_daily_credits
             \/ rate_limit_remaining <= 0 )
        => ( /\ ev'.op = "refused"
             /\ ev'.ret = Returned(IF cache # None THEN cache[1] ELSE << >>)
             /\ pc' = pc
             /\ UNCHANGED orch ) ]_vars

(* a forced call after the minimum interval, with the credits exhausted  *)
(* and a non-empty snapshot, has been refused                            *)
C3_Witness ==
    /\ ev.op = "refused"
    /\ ev.force
    /\ now - last_request_time >= min_request_interval
    /\ daily_credits_used >= max_daily_credits
    /\ rate_limit_remaining > 0
    /\ cache # None /\ cache[1] # << >>
    /\ ev.ret = Returned(cache[1])

(* C4: an admitted call issues exactly one upstream call; when that call *)
(* succeeds the credits used grow by exactly 1, the snapshot becomes the *)
(* records parsed from the answer, cache_timestamp and last_request_time *)
(* become the time the call was made, and the caller receives the new    *)
(* snapshot.                                                             *)
C4_AdmittedFetch ==
    [][ /\ ( /\ ev'.op \in CallOps
             /\ ~(~ev'.force /\ cache # None /\ now - cache_timestamp < cache_duration)
             /\ now - last_request_time >= min_request_interval
             /\ daily_credits_used < max_daily_credits
             /\ rate_limit_remaining > 0 )
           => ( /\ ev'.op = "request"
                /\ \E c \in Callers :
                      /\ pc[c] = "idle" /\ pc'[c] = "request"
                      /\ \A d \in Callers \ { c } : pc'[d] = pc[d]
                /\ UNCHANGED orch )
        /\ ev'.op = "body"
           => LET parsed == ParseFlightData(ev'.states, altitude_filters,
                                            flight_history, now).flights
              IN  /\ daily_credits_used' = daily_credits_used + 1
                  /\ cache' = Some(parsed)
                  /\ ev'.ret = Returned(parsed)
                  /\ \E c \in Callers :
                        /\ pc[c] = "body" /\ pc'[c] = "idle"
                        /\ cache_timestamp' = current_time[c]
                        /\ last_request_time' = current_time[c]
                        /\ \A d \in Callers \ { c } : pc'[d] = pc[d] ]_vars

C4_Witness ==
    /\ ev.op = "body"
    /\ ev.ret.value # << >>
    /\ cache = Some(ev.ret.value)
    /\ daily_credits_used = 1
    /\ cache_timestamp = last_request_time /\ cache_timestamp > 0

(* C5: when the upstream call answers 429 with a retry delay (60 when    *)
(* the header is missing), the reset deadline becomes now + that delay,  *)
(* the caller receives the previous snapshot (empty if there is none),   *)
(* and the snapshot, cache_timestamp, last_request_time and the credits  *)
(* used are unchanged.                                                   *)
C5_Throttled ==
    [][ ev'.op = "throttled"
        => ( /\ rate_limit_reset_time' =
                    Some(now + (IF ev'.retry.kind = "int" THEN ev'.retry.v
                                ELSE DefaultRetryAfter))
             /\ ev'.ret = Returned(IF cache # None THEN cache[1] ELSE << >>)
             /\ UNCHANGED << cache, cache_timestamp, last_request_time,
                             daily_credits_used >> ) ]_vars

C5_Witness ==
    /\ ev.op = "throttled"
    /\ ev.retry.kind = "int"
    /\ rate_limit_reset_time = Some(now + ev.retry.v)
    /\ ev.ret.value # << >>

(* C6: when the upstream call fails in any other way (an exception, or   *)
(* a status that is neither 200 nor 429) nothing is raised to the        *)
(* caller, who receives the previous snapshot (empty if there is none);  *)
(* the snapshot, cache_timestamp, last_request_time and the credits used *)
(* are unchanged.                                                        *)
C6_FailureServesStale ==
    [][ ev'.op \in { "failed", "exception" }
        => ( /\ ~ev'.ret.raised
             /\ ev'.ret.value = (IF cache # None THEN cache[1] ELSE << >>)
             /\ UNCHANGED << cache, cache_timestamp, last_request_time,
                             daily_credits_used >> ) ]_vars

C6_Witness ==
    /\ ev.op = "exception"
    /\ ~ev.ret.raised
    /\ ev.ret.value # << >>
    /\ cache = Some(ev.ret.value)

(* C7: every value a caller receives, and the snapshot itself, is either *)
(* empty or the complete list produced by one successful fetch.          *)
C7_WholeSnapshots ==
    /\ cache # None => cache[1] = << >> \/ cache[1] \in fetched
    /\ ev.op \in ReturnOps => ev.ret.value = << >> \/ ev.ret.value \in fetched

(* a second fetch has replaced a non-empty snapshot while another call   *)
(* was in flight                                                         *)
C7_Witness ==
    /\ ev.op = "body"
    /\ Cardinality({ f \in fetched : f # << >> }) >= 2
    /\ InFlight # { }

-----------------------------------------------------------------------------
(* Claims about the altitude ladder, checked under SpecParse *)

(* The filter of the i-th enhanced flight of the last poll, before and   *)
(* after _enhance_flight_data ran on it                                  *)
FilterBefore(i) == ev.enhanced[i].before
FilterAfter(i) == ev.enhanced[i].after

(* C8: the altitude _predict_missing_altitude returns lies in            *)
(* [0, 50000] for every observation, whichever step produced it.         *)
C8_ResolvedInRange ==
    ev.op = "parse" =>
        \A i \in 1..Len(ev.enhanced) :
            /\ 0 <= ev.enhanced[i].flight.predicted_altitude
            /\ ev.enhanced[i].flight.predicted_altitude <= MaxReasonableAltitude

(* C9: a barometric altitude b > 0 is returned as it is and fed to the   *)
(* filter's update exactly once; otherwise a geometric altitude g > 0 is *)
(* returned and fed to update exactly once; barometric wins when both    *)
(* are present; no later step runs (the only predict is the one update   *)
(* makes).                                                               *)
C9_MeasuredFirst ==
    ev.op = "parse" =>
        \A i \in 1..Len(ev.enhanced) :
            LET f == ev.enhanced[i].flight
                b == f.baro_altitude
                g == f.geo_altitude
                used == IF b # None /\ b[1] > 0 THEN b
                        ELSE IF g # None /\ g[1] > 0 THEN g ELSE None
                mh0 == FilterBefore(i).measurement_history
                mh1 == FilterAfter(i).measurement_history
                ph0 == FilterBefore(i).prediction_history
                ph1 == FilterAfter(i).prediction_history
            IN  used # None =>
                    /\ f.predicted_altitude = used[1]
                    /\ ev.enhanced[i].method = (IF b # None /\ b[1] > 0 THEN "baro" ELSE "geo")
                    /\ Len(mh1) = Len(mh0) + 1
                    /\ mh1[Len(mh1)].altitude = used[1]
                    /\ Len(ph1) = Len(ph0) + 1

(* an observation carrying both altitudes has been resolved *)
C9_Witness ==
    /\ ev.op = "parse"
    /\ Len(ev.enhanced) = 1
    /\ ev.enhanced[1].flight.baro_altitude = Some(12000)
    /\ ev.enhanced[1].flight.geo_altitude = Some(11000)
    /\ ev.enhanced[1].flight.predicted_altitude = 12000
    /\ Len(FilterAfter(1).measurement_history) = 2

(* The case of C10: an aircraft seen for the first time, without         *)
(* barometric or geometric altitude, ground speed 300, vertical rate 0   *)
C10_Case ==
    /\ ev.op = "parse"
    /\ ev.states = << NoAltitude >>
    /\ NoAltitude.icao24 \notin DOMAIN ev.filters

(* C10 as stated: in that case the ladder falls through to the velocity  *)
(* heuristic and yields 25000.                                           *)
C10_VelocityHeuristic ==
    C10_Case => /\ ev.enhanced[1].method = "velocity"
                /\ ev.enhanced[1].flight.predicted_altitude = 25000

(* C10 as amended: in that case the filter prediction step answers:      *)
(* predict(1.0) on the new filter gives its initial altitude 35000,      *)
(* which is in range and returned; the velocity heuristic is not         *)
(* reached.                                                              *)
C10_FilterPrediction ==
    C10_Case => /\ ev.enhanced[1].method = "kalman"
                /\ ev.enhanced[1].flight.predicted_altitude = InitialAltitude
                /\ Len(FilterAfter(1).prediction_history) = 1
                /\ FilterAfter(1).measurement_history = << >>

C10_Witness ==
    /\ C10_Case
    /\ ev.enhanced[1].flight.velocity = Some(300)
    /\ ev.enhanced[1].flight.vertical_rate = Some(0)
    /\ ev.enhanced[1].flight.has_predicted_altitude
    /\ ev.enhanced[1].flight.predicted_altitude = 35000

-----------------------------------------------------------------------------
(* Claims about the validity filter, checked under SpecParse *)

(* The flights _enhance_flight_data returned during the last poll *)
EnhancedFlights == [i \in 1..Len(ev.enhanced) |-> ev.enhanced[i].flight]

(* The best-known altitude of a record as C11 words it: the raw          *)
(* barometric altitude, else the raw geometric one, else the resolved    *)
(* one                                                                   *)
C11_BestKnownAltitude(flight) ==
    IF flight.baro_altitude # None THEN flight.baro_altitude[1]
    ELSE IF flight.geo_altitude # None THEN flight.geo_altitude[1]
    ELSE flight.predicted_altitude

C11_Conditions(flight) ==
    /\ flight.latitude # None /\ flight.longitude # None
    /\ ~flight.on_ground
    /\ flight.callsign # ""
    /\ C11_BestKnownAltitude(flight) >= MinValidAltitude

(* C11: an observation is part of the list _parse_flight_data returns    *)
(* if and only if it has a position, is not on the ground, has a         *)
(* non-empty callsign and its best-known altitude (raw barometric, else  *)
(* raw geometric, else resolved) is at least 100.                        *)
C11_ValidityFilter ==
    ev.op = "parse" => ev.flights = SelectSeq(EnhancedFlights, C11_Conditions)

(* C12: no observation flagged on-ground is part of a list               *)
(* _parse_flight_data returns, whatever its other fields and whatever    *)
(* polls came before.                                                    *)
C12_NoGroundTraffic ==
    ev.op = "parse" => \A i \in 1..Len(ev.flights) : ~ev.flights[i].on_ground

(* an aircraft already tracked, with position, callsign and a measured   *)
(* altitude, is reported on the ground and left out                      *)
C12_Witness ==
    /\ ev.op = "parse"
    /\ polls >= 2
    /\ Len(ev.enhanced) = 1
    /\ ev.enhanced[1].flight.on_ground
    /\ ev.enhanced[1].flight.latitude # None
    /\ ev.enhanced[1].flight.callsign # ""
    /\ ev.enhanced[1].flight.baro_altitude = Some(12000)
    /\ Len(ev.enhanced[1].before.measurement_history) >= 1
    /\ ev.flights = << >>

-----------------------------------------------------------------------------
(* Claims about the filter, checked under SpecFilter *)

(* C13: after any sequence of predict, update and reset calls the        *)
(* confidence of the filter lies in [0, 1] (0 .. ConfidenceScale in the  *)
(* model's ten-thousandths), and so does every confidence recorded.      *)
C13_ConfidenceInRange ==
    /\ \A k \in DOMAIN altitude_filters :
          /\ 0 <= GetConfidence(altitude_filters[k])
          /\ GetConfidence(altitude_filters[k]) <= ConfidenceScale
    /\ ev.op = "update" => 0 <= ev.confidence /\ ev.confidence <= ConfidenceScale

(* the variance has grown past 1000, where the lower clamp acts *)
C13_Witness ==
    /\ ev.op = "predict"
    /\ TheFilter.covariance[1][1] > ConfidenceScale
    /\ GetConfidence(TheFilter) = 0
    /\ TheFilter.measurement_history # << >>

(* C14 as stated: for a fixed measured altitude the confidence after an  *)
(* update is never below the confidence after the update before it.      *)
C14_MonotoneConfidence ==
    (ev.op = "update" /\ ev.prev # None /\ ev.prev[1].altitude = ev.altitude)
        => ev.confidence >= ev.prev[1].confidence

(* C14 as amended: every update leaves a confidence of at least 0.9, and *)
(* on a new or reset filter fed one fixed altitude, with one second (the *)
(* time the first update assumes) between consecutive updates, the       *)
(* confidence never decreases from one update to the next.               *)
C14_SteadyMonotone ==
    ev.op = "update" =>
        /\ 10 * ev.confidence >= 9 * ConfidenceScale
        /\ (ev.steady /\ ev.prev # None) => ev.confidence >= ev.prev[1].confidence

(* three updates with one altitude, one second apart, on a new filter *)
C14_Witness ==
    /\ ev.op = "update"
    /\ ev.steady
    /\ ev.prev # None
    /\ Len(TheFilter.measurement_history) >= 3
    /\ ev.confidence > ev.prev[1].confidence

(* C15: predict(dt1) followed by predict(dt2) returns the same altitude  *)
(* and vertical rate, and leaves the same state vector, as one           *)
(* predict(dt1 + dt2) on the filter the first call started from.         *)
C15_PredictComposes ==
    (ev.op = "predict" /\ ev.prev # None) =>
        LET once == Predict(ev.prev[1].before, ev.prev[1].dt + ev.dt)
        IN  /\ ev.ret = once.state
            /\ TheFilter.state = once.state

(* two predicts in a row on a filter whose vertical rate is not 0 *)
C15_Witness ==
    /\ ev.op = "predict"
    /\ ev.prev # None
    /\ ev.prev[1].before.state[2] # 0
    /\ ev.prev[1].dt # ev.dt
    /\ TheFilter.state[1] # ev.prev[1].before.state[1]

-----------------------------------------------------------------------------
(* Claims about the forecaster, checked under SpecForecast *)

(* The altitude predict_trajectory starts from (kalman_filter.py:151) *)
StartingAltitude(flight) ==
    OrElse(OrElse(flight.baro_altitude, flight.geo_altitude),
           Some(DefaultCruiseAltitude))[1]

(* C16: for a flight with ground speed 0 and vertical rate 0 every point *)
(* of the trajectory has the starting latitude, longitude and altitude   *)
(* and distance 0 from the current position, whatever the starting       *)
(* altitude.                                                             *)
C16_NoMotion ==
    ( /\ ev.op = "forecast"
      /\ ev.flight.velocity = Some(0)
      /\ ev.flight.vertical_rate = Some(0) )
    => \A i \in 1..Len(ev.trajectory) :
          /\ ev.trajectory[i].latitude = ev.flight.latitude[1]
          /\ ev.trajectory[i].longitude = ev.flight.longitude[1]
          /\ ev.trajectory[i].altitude = StartingAltitude(ev.flight)
          /\ ev.trajectory[i].distance_from_current = 0

(* ceil(a / b) for b > 0 *)
CeilDiv(a, b) == (a + b - 1) \div b

(* C17: predict_trajectory(flight, prediction_time, time_step) returns   *)
(* exactly ceil(prediction_time / time_step) points, their time offsets  *)
(* are 0, time_step, 2 * time_step, ... in increasing order, and a call  *)
(* with the inputs of the call before it returns the same sequence.      *)
C17_ForecastShape ==
    ev.op = "forecast" =>
        /\ Len(ev.trajectory) = CeilDiv(ev.prediction_time, ev.time_step)
        /\ \A i \in 1..Len(ev.trajectory) :
              ev.trajectory[i].time_offset = (i - 1) * ev.time_step
        /\ \A i \in 1..(Len(ev.trajectory) - 1) :
              ev.trajectory[i].time_offset < ev.trajectory[i + 1].time_offset
        /\ ( /\ ev.prev # None
             /\ ev.prev[1].flight = ev.flight
             /\ ev.prev[1].prediction_time = ev.prediction_time
             /\ ev.prev[1].time_step = ev.time_step )
           => ev.prev[1].trajectory = ev.trajectory

(* a horizon that is not a multiple of the step, forecast twice *)
C17_Witness ==
    /\ ev.op = "forecast"
    /\ ev.prediction_time = 5 /\ ev.time_step = 2
    /\ Len(ev.trajectory) = 3
    /\ ev.trajectory[3].time_offset = 4
    /\ ev.prev # None
    /\ ev.prev[1].flight = ev.flight
    /\ ev.prev[1].prediction_time = 5 /\ ev.prev[1].time_step = 2

-----------------------------------------------------------------------------
(* Claims about a forecaster that raises during enrichment (SpecParse) *)

(* The state vectors of an answer that _parse_flight_data does not skip *)
LongEnough(state) == state.nfields >= MinStateFields
WellFormedStates(states) == SelectSeq(states, LongEnough)

(* C18: when the forecaster raises while an observation is enriched, the  *)
(* record is still assembled with its other fields (the observation's own *)
(* fields, the resolved altitude, the confidence of its filter and the    *)
(* prediction flag) and an empty trajectory; whether it is returned is    *)
(* decided by the validity test alone; and every later observation of the *)
(* batch is enriched as well.                                              *)
C18_ForecastFailureContained ==
    ev.op = "parse" =>
        /\ Len(ev.enhanced) = Len(WellFormedStates(ev.states))
        /\ \A i \in 1..Len(ev.enhanced) :
              PredictTrajectoryRaises(ev.enhanced[i].flight) =>
                  /\ ev.enhanced[i].flight.predicted_trajectory = << >>
                  /\ ev.enhanced[i].flight.icao24 = WellFormedStates(ev.states)[i].icao24
                  /\ ev.enhanced[i].flight.baro_altitude =
                         WellFormedStates(ev.states)[i].baro_altitude
                  /\ ev.enhanced[i].flight.velocity = WellFormedStates(ev.states)[i].velocity
                  /\ ev.enhanced[i].flight.predicted_altitude \in Int
                  /\ ev.enhanced[i].flight.altitude_confidence = GetConfidence(FilterAfter(i))
                  /\ ev.enhanced[i].flight.has_predicted_altitude =
                         (WellFormedStates(ev.states)[i].baro_altitude = None
                          /\ WellFormedStates(ev.states)[i].geo_altitude = None)
                  /\ (\E j \in 1..Len(ev.flights) : ev.flights[j] = ev.enhanced[i].flight)
                         <=> IsValidFlight(ev.enhanced[i].flight)

(* A batch whose first observation makes the forecaster raise and whose   *)
(* second one is enriched, forecast and returned                          *)
C18_Witness ==
    /\ ev.op = "parse"
    /\ Len(ev.enhanced) = 2
    /\ PredictTrajectoryRaises(ev.enhanced[1].flight)
    /\ ev.enhanced[1].flight.predicted_trajectory = << >>
    /\ ev.enhanced[1].flight.has_predicted_altitude
    /\ Len(ev.enhanced[2].flight.predicted_trajectory) = TrajectoryLimit
    /\ ev.flights = << ev.enhanced[2].flight >>

-----------------------------------------------------------------------------
(* The lookups of the service (get_flight_by_id, get_flight_trajectory,   *)
(* get_altitude_prediction) between refreshes, every call of              *)
(* get_sf_bay_flights running to its end before the next one starts       *)

MaxLookupSteps == 3

LookupKeys == { "a", "b", "z" }

Grounded == [BaseState EXCEPT !.icao24 = "b", !.on_ground = TRUE]

(* The upstream answers: their status and data["states"] *)
NoAnswer == [status |-> 0, states |-> << >>]
LookupAnswers ==
    { [status |-> 200, states |-> << BaseState, Grounded >>],
      [status |-> 200, states |-> << [BaseState EXCEPT !.nfields = 16],
                                     [BaseState EXCEPT !.baro_altitude = Some(11000)] >>],
      [status |-> 200, states |-> << BaseState,
                                     [Grounded EXCEPT !.callsign = Some(NumberCallsign)],
                                     [BaseState EXCEPT !.icao24 = "b"] >>],
      [status |-> 500, states |-> << >>] }

(* get_sf_bay_flights goes to the upstream (lines 58-69) *)
Fetching == ~CacheFresh(FALSE) /\ CanMakeRequest
AnswersNow == IF Fetching THEN LookupAnswers ELSE { NoAnswer }

(* What _fetch_flights_from_api returns and leaves behind for an answer   *)
(* without rate-limit headers, parsed being the outcome of the loop of    *)
(* _parse_flight_data over its states (lines 106-126)                     *)
FetchFlightsFromApi(answer, parsed) ==
    IF answer.status = 200
    THEN [ flights |-> IF parsed.raised THEN None ELSE Some(parsed.flights),
           enhanced |-> parsed.enhanced,
           filters |-> parsed.filters,
           history |-> parsed.history,
           credits |-> IF parsed.raised THEN daily_credits_used ELSE CreditsAfterFetch ]
    ELSE [ flights |-> None, enhanced |-> << >>, filters |-> altitude_filters,
           history |-> flight_history, credits |-> daily_credits_used ]

(* The list get_sf_bay_flights() returns (lines 59-60, 67, 76, 79), fetch *)
(* being what the upstream call, if one is made, comes back with          *)
ServedFlights(fetch) ==
    IF CacheFresh(FALSE) THEN cache[1]
    ELSE IF ~CanMakeRequest THEN CacheOrEmpty
    ELSE IF fetch.flights # None THEN fetch.flights[1]
    ELSE CacheOrEmpty

(* ... and the state it leaves (lines 71-75, 114, 296-306) *)
Serve(fetch) ==
    IF Fetching
    THEN /\ altitude_filters' = fetch.filters
         /\ flight_history' = fetch.history
         /\ daily_credits_used' = fetch.credits
         /\ IF fetch.flights # None
            THEN /\ cache' = fetch.flights
                 /\ cache_timestamp' = now
                 /\ last_request_time' = now
            ELSE UNCHANGED << cache, cache_timestamp, last_request_time >>
    ELSE UNCHANGED << cache, cache_timestamp, last_request_time, daily_credits_used,
                      altitude_filters, flight_history >>

(* The loop of get_flight_by_id: the first flight with the key, or None *)
RECURSIVE FindFlight(_, _)
FindFlight(flights, flight_id) ==
    IF flights = << >> THEN None
    ELSE IF Head(flights).icao24 = flight_id THEN Some(Head(flights))
    ELSE FindFlight(Tail(flights), flight_id)

(* The results of get_flight_trajectory (lines 481-502); the timestamp of *)
(* the answer is left out                                                 *)
FlightNotFound == [success |-> FALSE, error |-> "Flight not found"]
TrajectoryResult(found, flight_id, prediction_time) ==
    IF found = None THEN FlightNotFound
    ELSE IF PredictTrajectoryRaises(found[1])
    THEN [success |-> FALSE, error |-> "Trajectory prediction failed"]
    ELSE [success |-> TRUE, flight_id |-> flight_id,
          trajectory |-> PredictTrajectory(found[1], prediction_time, DefaultTimeStep),
          prediction_time |-> prediction_time]

(* An estimate read without asking whether the aircraft is tracked: the   *)
(* subscript raises KeyError                                              *)
AltitudePredictionUnchecked(filters, flight_id) ==
    IF flight_id \notin DOMAIN filters THEN Raised
    ELSE [success |-> TRUE, flight_id |-> flight_id]

(* get_altitude_prediction (lines 504-523), without the timestamp *)
FlightNotTracked == [success |-> FALSE, error |-> "Flight not tracked"]
AltitudePrediction(filters, flight_id) ==
    IF flight_id \notin DOMAIN filters THEN FlightNotTracked
    ELSE [success |-> TRUE, flight_id |-> flight_id,
          predicted_altitude |-> filters[flight_id].state[1],
          predicted_vertical_rate |-> filters[flight_id].state[2],
          confidence |-> GetConfidence(filters[flight_id])]

(* What a step of this specification leaves alone *)
LookupFrame ==
    /\ polls' = polls + 1
    /\ UNCHANGED << now, max_daily_credits, rate_limit_remaining, rate_limit_reset_time,
                    pc, current_time, fetched >>

(* The background loop or GET /api/flights: get_sf_bay_flights() *)
Refreshed(answer, fetch) ==
    /\ Serve(fetch)
    /\ ev' = [op |-> "get_sf_bay_flights", fetching |-> Fetching, answer |-> answer,
              enhanced |-> fetch.enhanced, ret |-> ServedFlights(fetch)]

Refresh(answer) ==
    /\ polls < MaxLookupSteps
    /\ Refreshed(answer, FetchFlightsFromApi(answer,
                     ParseFlightData(answer.states, altitude_filters, flight_history, now)))
    /\ LookupFrame

(* get_flight_by_id(flight_id) *)
FlightById(flight_id, answer, fetch) ==
    /\ Serve(fetch)
    /\ ev' = [op |-> "get_flight_by_id", flight_id |-> flight_id, fetching |-> Fetching,
              answer |-> answer, enhanced |-> fetch.enhanced,
              ret |-> FindFlight(ServedFlights(fetch), flight_id)]

GetFlightById(flight_id, answer) ==
    /\ polls < MaxLookupSteps
    /\ FlightById(flight_id, answer, FetchFlightsFromApi(answer,
                     ParseFlightData(answer.states, altitude_filters, flight_history, now)))
    /\ LookupFrame

(* get_flight_trajectory(flight_id) *)
FlightTrajectory(flight_id, answer, fetch) ==
    /\ Serve(fetch)
    /\ ev' = [op |-> "get_flight_trajectory", flight_id |-> flight_id,
              fetching |-> Fetching, answer |-> answer, enhanced |-> fetch.enhanced,
              ret |-> TrajectoryResult(FindFlight(ServedFlights(fetch), flight_id),
                                       flight_id, DefaultPredictionTime)]

GetFlightTrajectory(flight_id, answer) ==
    /\ polls < MaxLookupSteps
    /\ FlightTrajectory(flight_id, answer, FetchFlightsFromApi(answer,
                     ParseFlightData(answer.states, altitude_filters, flight_history, now)))
    /\ LookupFrame

(* get_altitude_prediction(flight_id): it reads the filters only *)
GetAltitudePrediction(flight_id) ==
    /\ polls < MaxLookupSteps
    /\ ev' = [op |-> "get_altitude_prediction", flight_id |-> flight_id,
              ret |-> AltitudePrediction(altitude_filters, flight_id)]
    /\ polls' = polls + 1
    /\ UNCHANGED << now, orch, altitude_filters, flight_history, pc, current_time,
                    fetched >>

(* asyncio.sleep(8) of the background loop *)
Sleep(gap) ==
    /\ polls < MaxLookupSteps
    /\ now' = now + gap
    /\ ev' = [op |-> "sleep"]
    /\ polls' = polls + 1
    /\ UNCHANGED << orch, altitude_filters, flight_history, pc, current_time, fetched >>

NextLookup ==
    \/ \E answer \in AnswersNow : Refresh(answer)
    \/ \E flight_id \in LookupKeys, answer \in AnswersNow : GetFlightById(flight_id, answer)
    \/ \E flight_id \in LookupKeys, answer \in AnswersNow :
          GetFlightTrajectory(flight_id, answer)
    \/ \E flight_id \in LookupKeys : GetAltitudePrediction(flight_id)
    \/ \E gap \in PollGaps : Sleep(gap)

SpecLookup == InitCold /\ [][NextLookup]_vars

-----------------------------------------------------------------------------
(* Claims about malformed observations and unknown keys (SpecLookup) *)

WellFormed(state) == LongEnough(state) /\ ~FlightOfRaises(state)

(* The flights among enhanced that _is_valid_flight accepts *)
ValidOf(enhanced) ==
    SelectSeq([i \in 1..Len(enhanced) |-> enhanced[i].flight], IsValidFlight)

(* C19: a malformed observation (too few fields, or a field that cannot   *)
(* be parsed) is dropped alone: after a fetch answered with status 200    *)
(* every well-formed observation of the batch has been enriched, and the  *)
(* fetch has succeeded: the snapshot is the valid ones among them, taken  *)
(* at the time of the call.                                                *)
C19_MalformedDroppedAlone ==
    (ev.op \in { "get_sf_bay_flights", "get_flight_by_id", "get_flight_trajectory" }
        /\ ev.fetching /\ ev.answer.status = 200)
    =>  /\ Len(ev.enhanced) = Len(SelectSeq(ev.answer.states, WellFormed))
        /\ cache = Some(ValidOf(ev.enhanced))
        /\ cache_timestamp = now

(* The part of C19 the code keeps: an observation with too few fields is  *)
(* skipped and the rest of the batch is enriched and becomes the snapshot *)
C19_ShortDroppedAlone ==
    (ev.op \in { "get_sf_bay_flights", "get_flight_by_id", "get_flight_trajectory" }
        /\ ev.fetching /\ ev.answer.status = 200
        /\ \A i \in 1..Len(ev.answer.states) : ~FlightOfRaises(ev.answer.states[i]))
    =>  /\ Len(ev.enhanced) = Len(SelectSeq(ev.answer.states, WellFormed))
        /\ cache = Some(ValidOf(ev.enhanced))
        /\ cache_timestamp = now

InSnapshot(flight_id) ==
    \E i \in 1..Len(CacheOrEmpty) : CacheOrEmpty[i].icao24 = flight_id

(* C20: a lookup of a key that is not in the current snapshot             *)
(* (get_flight_by_id, get_flight_trajectory) or that has no filter        *)
(* (get_altitude_prediction) returns the not-found or not-tracked result, *)
(* which no lookup of a known key returns, and raises nothing.            *)
C20_UnknownKey ==
    /\ ev.op = "get_flight_by_id" =>
          IF InSnapshot(ev.flight_id)
          THEN ev.ret # None /\ ev.ret[1].icao24 = ev.flight_id
          ELSE ev.ret = None
    /\ ev.op = "get_flight_trajectory" =>
          IF InSnapshot(ev.flight_id)
          THEN ev.ret.success /\ ev.ret.flight_id = ev.flight_id
          ELSE ev.ret = [success |-> FALSE, error |-> "Flight not found"]
    /\ ev.op = "get_altitude_prediction" =>
          IF ev.flight_id \in DOMAIN altitude_filters
          THEN ev.ret.success /\ ev.ret.flight_id = ev.flight_id
          ELSE ev.ret = [success |-> FALSE, error |-> "Flight not tracked"]

(* An aircraft that has a filter but is not in the snapshot is asked for  *)
(* after a refresh: its trajectory is not found                           *)
C20_Witness ==
    /\ ev.op = "get_flight_trajectory"
    /\ ev.flight_id = "b"
    /\ ~ev.fetching
    /\ InSnapshot("a") /\ ~InSnapshot("b")
    /\ "b" \in DOMAIN altitude_filters
    /\ ev.ret = FlightNotFound

-----------------------------------------------------------------------------
(* Claims about the altitude ladder and the enriched record (SpecParse) *)

(* The return statements of _predict_missing_altitude *)
LadderSteps == { "baro", "geo", "kalman", "integrated", "velocity", "phase" }

(* C21: _predict_missing_altitude returns an altitude for every           *)
(* observation, whatever the filter and the history of its aircraft: one  *)
(* of its return statements answers with a number, and when none of the   *)
(* earlier ones does, the last step answers with one of its defaults      *)
(* (20000, 30000 or 35000); so every observation that is enriched carries *)
(* a resolved altitude.                                                    *)
C21_LadderTerminates ==
    ev.op = "parse" =>
        /\ Len(ev.enhanced) = Len(WellFormedStates(ev.states))
        /\ \A i \in 1..Len(ev.enhanced) :
              /\ ev.enhanced[i].method \in LadderSteps
              /\ ev.enhanced[i].flight.predicted_altitude \in Int
              /\ ev.enhanced[i].method = "phase" =>
                    ev.enhanced[i].flight.predicted_altitude
                        \in { 20000, 30000, DefaultCruiseAltitude }

(* An aircraft whose filter predicts an altitude out of range and that    *)
(* reports neither altitude nor vertical rate nor speed: the last step    *)
(* answers                                                                 *)
C21_Witness ==
    /\ ev.op = "parse"
    /\ Len(ev.enhanced) = 1
    /\ ev.enhanced[1].method = "phase"
    /\ ev.enhanced[1].flight.velocity = None
    /\ ev.enhanced[1].flight.vertical_rate = None
    /\ ~IsReasonableAltitude(FilterAfter(1).state[1])
    /\ ev.enhanced[1].flight.predicted_altitude = DefaultCruiseAltitude

-----------------------------------------------------------------------------
(* Claims about the status and the timing of upstream calls (Spec) *)

(* C22: get_rate_limit_status changes no state of the service, and a      *)
(* get_sf_bay_flights call made at the instant of a status does what the  *)
(* status said: a call that is not forced is served from the cache        *)
(* exactly when cache_fresh was true, and a call that is not served from  *)
(* the cache goes to the upstream exactly when can_make_request was true. *)
C22_StatusAgrees ==
    [][ /\ ev'.op = "status" =>
              UNCHANGED << now, orch, altitude_filters, flight_history, pc, current_time >>
        /\ (ev.op = "status" /\ ev'.op \in { "cached", "refused", "request" }) =>
              /\ ~ev'.force => (ev.ret.cache_fresh <=> ev'.op = "cached")
              /\ ev'.op # "cached" => (ev.ret.can_make_request <=> ev'.op = "request")
      ]_vars

(* A status that reports a fresh cache and no admissible call *)
C22_Witness ==
    /\ ev.op = "status"
    /\ ev.ret.cache_fresh
    /\ ~ev.ret.can_make_request
    /\ ev.ret.next_request_available > 0
    /\ cache # None

(* C23: two upstream calls never start less than min_request_interval    *)
(* apart: when a call is issued, every call that is still outstanding    *)
(* started at least min_request_interval seconds earlier.                *)
C23_CallsSpaced ==
    [][ \A c \in Callers :
          (pc[c] = "idle" /\ pc'[c] = "request") =>
              \A d \in InFlight : now - current_time[d] >= min_request_interval
      ]_vars

(* C24: once a 429 answer has recorded a reset deadline, no upstream call *)
(* is issued before the clock has reached that deadline.                  *)
C24_BackoffRespected ==
    [][ (\E c \in Callers : pc[c] = "idle" /\ pc'[c] = "request") =>
            (rate_limit_reset_time = None \/ now >= rate_limit_reset_time[1])
      ]_vars

(* C25: throttling and failures are recoverable: whenever no call is      *)
(* outstanding and the credits used are below the ceiling, a call made    *)
(* once the minimum interval has passed is admitted; no answer leaves the *)
(* service in a state that refuses every later call.                      *)
C25_Recoverable ==
    (InFlight = { } /\ daily_credits_used < max_daily_credits) =>
        \E d \in 0..min_request_interval : CanMakeRequestAfter(d)

(* What makes the state of the C25 counterexample final: with no credits  *)
(* remaining and no call outstanding, no step issues a call or changes    *)
(* the remaining credits                                                  *)
C25_WedgedForever ==
    [][ (InFlight = { } /\ rate_limit_remaining <= 0) =>
            (InFlight' = { } /\ rate_limit_remaining' = rate_limit_remaining)
      ]_vars

(* C26: under any interleaving of concurrent callers the time stamp of    *)
(* the snapshot never decreases: the snapshot is never replaced by the    *)
(* result of a call that started before the call that produced it.        *)
C26_TimestampMonotone == [][ cache_timestamp' >= cache_timestamp ]_vars

-----------------------------------------------------------------------------
(* Claims about what enrichment keeps and stores (SpecParse) *)

(* C27: a filter and a history are created and updated only for           *)
(* observations that pass the validity test: enriching an observation     *)
(* that _is_valid_flight rejects leaves the aircraft without a filter if  *)
(* it had none, and its filter as it was otherwise.                       *)
C27_OnlyValidTracked ==
    ev.op = "parse" =>
        \A i \in 1..Len(ev.enhanced) :
            ~IsValidFlight(ev.enhanced[i].flight) =>
                /\ FilterAfter(i) = FilterBefore(i)
                /\ (Len(ev.enhanced) = 1 /\ ev.enhanced[i].flight.icao24 \notin DOMAIN ev.filters)
                       => (ev.enhanced[i].flight.icao24 \notin DOMAIN altitude_filters
                           /\ ev.enhanced[i].flight.icao24 \notin DOMAIN flight_history)

(* The forecast predict_trajectory makes for a flight when it starts from *)
(* altitude alt                                                            *)
ForecastFrom(flight, alt) ==
    TrajectoryPoints(flight.latitude[1], flight.longitude[1], alt,
                     OrElse(flight.velocity, Some(0))[1],
                     CalculateVelocityVector(OrElse(flight.velocity, Some(0))[1],
                                             OrElse(flight.true_track, Some(0))[1],
                                             OrElse(flight.vertical_rate, Some(0))[1]),
                     ARange(0, DefaultPredictionTime, DefaultTimeStep))

(* C28: the forecast stored in an enriched record starts from the         *)
(* altitude _predict_missing_altitude returned for the observation: it is *)
(* the beginning of the forecast made from predicted_altitude, whether or *)
(* not the observation carries a raw altitude.                            *)
C28_ForecastFromResolved ==
    ev.op = "parse" =>
        \A i \in 1..Len(ev.enhanced) :
            ~PredictTrajectoryRaises(ev.enhanced[i].flight) =>
                ev.enhanced[i].flight.predicted_trajectory =
                    FirstPoints(ForecastFrom(ev.enhanced[i].flight,
                                             ev.enhanced[i].flight.predicted_altitude))

(* C29: the trajectory stored in an enriched record whose forecast        *)
(* succeeded has horizon / step points: 30 for the default horizon of     *)
(* 60 s and the default step of 2 s.                                      *)
C29_StoredLength ==
    ev.op = "parse" =>
        \A i \in 1..Len(ev.enhanced) :
            ~PredictTrajectoryRaises(ev.enhanced[i].flight) =>
                Len(ev.enhanced[i].flight.predicted_trajectory)
                    = DefaultPredictionTime \div DefaultTimeStep

(* C30: the record is marked as measured (has_predicted_altitude false)   *)
(* exactly when the barometric or the geometric step returned the raw     *)
(* altitude, and as predicted exactly when a later step produced the      *)
(* value.                                                                  *)
C30_Provenance ==
    ev.op = "parse" =>
        \A i \in 1..Len(ev.enhanced) :
            ev.enhanced[i].flight.has_predicted_altitude
                <=> ev.enhanced[i].method \notin { "baro", "geo" }

-----------------------------------------------------------------------------
(* The enrichment pass on a long-tracked aircraft: the service first     *)
(* polls aircraft "a" as often as its history has room, the first answer  *)
(* reporting the barometric altitude 60000 and the later ones a descent   *)
(* without any altitude, and then goes on polling answers without         *)
(* altitude drawn from AgedBatches                                         *)

HighState == [BaseState EXCEPT !.baro_altitude = Some(60000)]

Descending == [NoAltitude EXCEPT !.vertical_rate = Some(-7000)]

Track ==
    /\ polls < HistoryLimit
    /\ Polling(<< IF polls = 0 THEN HighState ELSE Descending >>, cache_duration)

PollAged(states, gap) ==
    /\ HistoryLimit <= polls
    /\ polls < HistoryLimit + MaxParsePolls
    /\ Polling(states, gap)

(* Ground speeds on both sides of every band edge of the velocity heuristic *)
AgedSpeeds ==
    { None, Some(-5), Some(49), Some(50), Some(149), Some(150), Some(249),
      Some(250), Some(349), Some(350), Some(449), Some(450) }

AgedStates ==
    { [NoAltitude EXCEPT !.velocity = v, !.vertical_rate = None] : v \in AgedSpeeds }
        \cup { [NoAltitude EXCEPT !.vertical_rate = Some(r)] : r \in { 0, -20000, -70000 } }

AgedBatches == { << >> } \cup { << s >> : s \in AgedStates }

NextAged == Track \/ \E states \in AgedBatches, gap \in PollGaps : PollAged(states, gap)

SpecAged == InitCold /\ [][NextAged]_vars

-----------------------------------------------------------------------------
(* Claims about the steps of the altitude ladder *)

(* The observation carries no barometric and no geometric altitude        *)
(* greater than 0                                                          *)
NoRawAltitude(flight) ==
    /\ ~(flight.baro_altitude # None /\ flight.baro_altitude[1] > 0)
    /\ ~(flight.geo_altitude # None /\ flight.geo_altitude[1] > 0)

(* C31: for an observation without a raw altitude greater than 0 the      *)
(* ladder calls predict(1.0) on the aircraft's filter exactly once (one   *)
(* more prediction, no measurement) and returns the predicted altitude    *)
(* if and only if it lies in [0, 50000]; only otherwise a later step      *)
(* answers: rate integration if the observation has a vertical rate, the  *)
(* velocity heuristic only after it, the phase heuristic only when there  *)
(* is no ground speed.                                                     *)
C31_FilterPredictionStep ==
    ev.op = "parse" =>
        \A i \in 1..Len(ev.enhanced) :
            NoRawAltitude(ev.enhanced[i].flight) =>
                /\ Len(FilterAfter(i).prediction_history)
                       = Len(FilterBefore(i).prediction_history) + 1
                /\ FilterAfter(i).measurement_history = FilterBefore(i).measurement_history
                /\ FilterAfter(i).state[1]
                       = FilterBefore(i).state[1] + FilterBefore(i).state[2]
                /\ (0 <= FilterAfter(i).state[1] /\ FilterAfter(i).state[1] <= 50000)
                       <=> ev.enhanced[i].method = "kalman"
                /\ ev.enhanced[i].method = "kalman" =>
                       ev.enhanced[i].flight.predicted_altitude = FilterAfter(i).state[1]
                /\ ev.enhanced[i].method \in { "kalman", "integrated", "velocity", "phase" }
                /\ ev.enhanced[i].method = "integrated" =>
                       ev.enhanced[i].flight.vertical_rate # None
                /\ ev.enhanced[i].method = "phase" => ev.enhanced[i].flight.velocity = None

(* A tracked aircraft whose filter predicts an altitude above 50000 and   *)
(* that reports no altitude: the prediction is made and a later step      *)
(* answers                                                                 *)
C31_Witness ==
    /\ ev.op = "parse"
    /\ Len(ev.enhanced) = 1
    /\ NoRawAltitude(ev.enhanced[1].flight)
    /\ FilterAfter(1).state[1] > 50000
    /\ Len(FilterAfter(1).prediction_history) = Len(FilterBefore(1).prediction_history) + 1
    /\ ev.enhanced[1].method = "velocity"


(* What identifies an observation in a history or in an enriched record *)
Observation(flight) ==
    [ icao24 |-> flight.icao24, latitude |-> flight.latitude,
      baro_altitude |-> flight.baro_altitude, geo_altitude |-> flight.geo_altitude,
      velocity |-> flight.velocity, vertical_rate |-> flight.vertical_rate ]

Observations(flights) == [i \in 1..Len(flights) |-> Observation(flights[i])]

(* The observations of key among the records a pass has enhanced, in the *)
(* order of the answer                                                   *)
Arrivals(key, enhanced) ==
    LET of_key(e) == e.flight.icao24 = key
        arrived == SelectSeq(enhanced, of_key)
    IN  [i \in 1..Len(arrived) |-> Observation(arrived[i].flight)]

LastOf(s, n) == IF Len(s) > n THEN SubSeq(s, Len(s) - n + 1, Len(s)) ELSE s

(* C32: after every poll each key's history holds at most 10 entries, and *)
(* they are the most recent observations of the key in arrival order: the *)
(* history is the last 10 of what it held before followed by the key's    *)
(* observations of this poll, so that an 11th observation evicts the      *)
(* oldest entry.                                                           *)
C32_HistoryRing ==
    [][ ev'.op = "parse" =>
          \A key \in DOMAIN flight_history' :
              /\ Len(flight_history'[key]) <= 10
              /\ Observations(flight_history'[key])
                   = LastOf((IF key \in DOMAIN flight_history
                             THEN Observations(flight_history[key]) ELSE << >>)
                                \o Arrivals(key, ev'.enhanced), 10) ]_vars

(* The 11th and 12th observation of an aircraft have arrived: its history *)
(* still holds 10 entries, the two new ones last after the eight newest   *)
(* of the old ones                                                         *)
C32_Witness ==
    /\ ev.op = "parse"
    /\ polls = HistoryLimit + 2
    /\ Len(flight_history["a"]) = 10
    /\ flight_history["a"][8].vertical_rate = Some(-7000)
    /\ flight_history["a"][9].velocity = Some(49)
    /\ flight_history["a"][10].velocity = Some(450)


(* C33: the measurement history and the prediction history of every       *)
(* altitude filter hold at most 10 entries each, whatever predict and     *)
(* update calls the filter has served.                                     *)
C33_FilterHistoriesBounded ==
    \A key \in DOMAIN altitude_filters :
        /\ Len(altitude_filters[key].measurement_history) <= 10
        /\ Len(altitude_filters[key].prediction_history) <= 10


(* The places before i at which a pass has enhanced the aircraft of place i *)
EarlierOf(enhanced, i) ==
    { j \in 1..(i - 1) : enhanced[j].flight.icao24 = enhanced[i].flight.icao24 }

SetMax(S) == CHOOSE x \in S : \A y \in S : y <= x

(* The filter the service holds for the aircraft of place i when its     *)
(* observation arrives, filters being the ones held before the pass      *)
FilterHeld(filters, enhanced, i) ==
    IF EarlierOf(enhanced, i) # { } THEN enhanced[SetMax(EarlierOf(enhanced, i))].after
    ELSE IF enhanced[i].flight.icao24 \in DOMAIN filters
    THEN filters[enhanced[i].flight.icao24]
    ELSE NewFilter

(* C34: every key has at most one filter; it is created (as a new filter) *)
(* by the first observation of the key, every later observation works on  *)
(* the filter the earlier ones left behind (which serves exactly one more *)
(* prediction), no filter is dropped or touched without an observation,   *)
(* and the keys with a filter are the keys with a history.                *)
C34_OneFilterPerKey ==
    [][ ev'.op = "parse" =>
          /\ DOMAIN altitude_filters' = DOMAIN flight_history'
          /\ DOMAIN altitude_filters' =
                 DOMAIN altitude_filters
                     \cup { ev'.enhanced[i].flight.icao24 : i \in 1..Len(ev'.enhanced) }
          /\ \A i \in 1..Len(ev'.enhanced) :
                 /\ ev'.enhanced[i].before = FilterHeld(altitude_filters, ev'.enhanced, i)
                 /\ Len(ev'.enhanced[i].after.prediction_history)
                        = Len(ev'.enhanced[i].before.prediction_history) + 1
                 /\ \/ \E j \in (i + 1)..Len(ev'.enhanced) :
                           ev'.enhanced[j].flight.icao24 = ev'.enhanced[i].flight.icao24
                    \/ altitude_filters'[ev'.enhanced[i].flight.icao24]
                           = ev'.enhanced[i].after
          /\ \A key \in DOMAIN altitude_filters :
                 \/ \E i \in 1..Len(ev'.enhanced) : ev'.enhanced[i].flight.icao24 = key
                 \/ altitude_filters'[key] = altitude_filters[key] ]_vars

(* One answer reports a tracked aircraft and a new one: the first goes on *)
(* with its filter, the second gets a new filter                          *)
C34_Witness ==
    /\ ev.op = "parse"
    /\ Len(ev.enhanced) = 2
    /\ DOMAIN ev.filters = { "a" }
    /\ ev.enhanced[1].flight.icao24 = "a"
    /\ FilterBefore(1) = ev.filters["a"]
    /\ Len(FilterAfter(1).prediction_history) = 2
    /\ ev.enhanced[2].flight.icao24 = "b"
    /\ FilterBefore(2) = NewFilter
    /\ DOMAIN altitude_filters = { "a", "b" }
    /\ DOMAIN flight_history = { "a", "b" }


-----------------------------------------------------------------------------
(* Claims about the credit budget *)

(* C35: a response whose remaining-credits header parses sets the         *)
(* remaining credits to the advertised value and the ceiling to 8000 if   *)
(* that value exceeds 4000 and to 4000 otherwise; a response whose header *)
(* is missing or does not parse, and every step that is not a response,   *)
(* leaves both unchanged; the ceiling is 4000 or 8000 in every state.     *)
C35_CeilingFollowsHeader ==
    [][ /\ max_daily_credits \in { 4000, 8000 }
        /\ max_daily_credits' \in { 4000, 8000 }
        /\ IF "remaining" \in DOMAIN ev' /\ ev'.remaining.kind = "int"
           THEN /\ rate_limit_remaining' = ev'.remaining.v
                /\ max_daily_credits' = IF ev'.remaining.v > 4000 THEN 8000 ELSE 4000
           ELSE /\ rate_limit_remaining' = rate_limit_remaining
                /\ max_daily_credits' = max_daily_credits ]_vars

(* A response has advertised 5000 remaining credits *)
C35_Witness ==
    /\ ev.op = "headers"
    /\ ev.remaining = IntHeader(5000)
    /\ rate_limit_remaining = 5000
    /\ max_daily_credits = 8000


(* C36: the credits used never decrease and change only by +1, on the     *)
(* step that completes a successful fetch, which is also the only step    *)
(* that replaces the snapshot; cache hits, refusals, throttled and failed *)
(* calls leave credits and snapshot as they are, so the credits used      *)
(* count the successful fetches.                                           *)
C36_CreditsCountFetches ==
    [][ IF ev'.op = "body"
        THEN /\ daily_credits_used' = daily_credits_used + 1
             /\ cache' = Some(ev'.ret.value)
             /\ \E c \in Callers : pc[c] = "body" /\ cache_timestamp' = current_time[c]
        ELSE /\ daily_credits_used' = daily_credits_used
             /\ cache' = cache
             /\ cache_timestamp' = cache_timestamp ]_vars

(* A new service has completed its second successful fetch *)
C36_Witness ==
    /\ ev.op = "body"
    /\ daily_credits_used = 2
    /\ polls = 2
    /\ cache = Some(ev.ret.value)


(* C37: the credits used never exceed the credit ceiling, whatever the    *)
(* headers do to the ceiling and however many callers are admitted        *)
(* together.                                                               *)
C37_CreditsWithinCeiling == daily_credits_used <= max_daily_credits


(* C38: the time of the last request equals the snapshot's timestamp in   *)
(* every state, so a call that is not forced and reaches the admission    *)
(* test (its snapshot is absent or stale) is never refused while the      *)
(* minimum interval since the last request has not passed: a refusal in   *)
(* that interval is the refusal of a forced call.                          *)
C38_RequestTimeIsTimestamp ==
    /\ last_request_time = cache_timestamp
    /\ (ev.op = "refused" /\ now - last_request_time < min_request_interval) => ev.force
    /\ (ev.op \in { "request", "refused" } /\ ~ev.force) =>
           now - last_request_time >= cache_duration

(* A forced call less than the minimum interval after a successful fetch *)
(* is refused                                                             *)
C38_Witness ==
    /\ ev.op = "refused"
    /\ ev.force
    /\ cache # None
    /\ cache_timestamp > 0
    /\ last_request_time = cache_timestamp
    /\ now - last_request_time < min_request_interval
    /\ daily_credits_used < max_daily_credits
    /\ rate_limit_remaining > 0


-----------------------------------------------------------------------------
(* Claims about rate integration and the velocity heuristic *)

(* The places of a history that carry an altitude *)
KnownAltitudes(h) ==
    { j \in 1..Len(h) : h[j].baro_altitude # None \/ h[j].geo_altitude # None }

(* last + vertical_rate * n for an observation and the history of its key *)
(* (the observation itself is its newest entry): last is the altitude of  *)
(* the newest entry that carries one and n the number of entries after    *)
(* it; 35000 when no entry carries an altitude                            *)
RateIntegral(flight, h, known) ==
    IF known = { } THEN 35000
    ELSE (IF h[SetMax(known)].baro_altitude # None
          THEN h[SetMax(known)].baro_altitude[1]
          ELSE h[SetMax(known)].geo_altitude[1])
             + flight.vertical_rate[1] * (Len(h) - SetMax(known))

(* The ladder evaluates the rate-integration step for the observation at  *)
(* place i of the pass: it has no raw altitude greater than 0, the        *)
(* filter's prediction is outside [0, 50000] and it has a vertical rate.  *)
(* (Where it is the last observation of its key in the pass, the key's    *)
(* history after the pass is the history the step has scanned.)           *)
IntegrationEvaluated(i) ==
    /\ NoRawAltitude(ev.enhanced[i].flight)
    /\ ~(0 <= FilterAfter(i).state[1] /\ FilterAfter(i).state[1] <= 50000)
    /\ ev.enhanced[i].flight.vertical_rate # None
    /\ \A j \in (i + 1)..Len(ev.enhanced) :
           ev.enhanced[j].flight.icao24 # ev.enhanced[i].flight.icao24

IntegralOf(i) ==
    RateIntegral(ev.enhanced[i].flight, flight_history[ev.enhanced[i].flight.icao24],
                 KnownAltitudes(flight_history[ev.enhanced[i].flight.icao24]))

(* C39: when the rate-integration step is evaluated its result is         *)
(* last + vertical_rate * n (35000 without a known altitude in the        *)
(* history); the result is the resolved altitude if it lies in            *)
(* [0, 50000], and otherwise a later step of the ladder answers.          *)
C39_RateIntegration ==
    ev.op = "parse" =>
        \A i \in 1..Len(ev.enhanced) :
            IntegrationEvaluated(i) =>
                IF 0 <= IntegralOf(i) /\ IntegralOf(i) <= 50000
                THEN /\ ev.enhanced[i].method = "integrated"
                     /\ ev.enhanced[i].flight.predicted_altitude = IntegralOf(i)
                ELSE ev.enhanced[i].method \in { "velocity", "phase" }

(* C39 as the code has it: the result of the step is last +               *)
(* vertical_rate * n raised to 0 when it is negative (35000 without a     *)
(* known altitude); it is the resolved altitude unless it exceeds 50000,  *)
(* and only then the velocity heuristic (the phase heuristic for an       *)
(* observation without ground speed) answers.                              *)
C39_ClampedRateIntegration ==
    ev.op = "parse" =>
        \A i \in 1..Len(ev.enhanced) :
            IntegrationEvaluated(i) =>
                IF IntegralOf(i) <= 50000
                THEN /\ ev.enhanced[i].method = "integrated"
                     /\ ev.enhanced[i].flight.predicted_altitude
                            = IF IntegralOf(i) < 0 THEN 0 ELSE IntegralOf(i)
                ELSE ev.enhanced[i].method
                         = IF ev.enhanced[i].flight.velocity # None THEN "velocity"
                           ELSE "phase"

(* An aircraft last seen at 60000 reports a descent of 7000 per poll for  *)
(* the ninth time: the integral is -3000 and the step answers 0            *)
C39_Witness ==
    /\ ev.op = "parse"
    /\ Len(ev.enhanced) = 1
    /\ IntegrationEvaluated(1)
    /\ IntegralOf(1) = -3000
    /\ ev.enhanced[1].method = "integrated"
    /\ ev.enhanced[1].flight.predicted_altitude = 0

(* The other outcomes of the step: an integral within the range, one     *)
(* above it, and a history without altitude                               *)
C39_WithinRange ==
    /\ ev.op = "parse" /\ Len(ev.enhanced) = 1 /\ IntegrationEvaluated(1)
    /\ IntegralOf(1) = 46000
    /\ ev.enhanced[1].flight.predicted_altitude = 46000

C39_AboveRange ==
    /\ ev.op = "parse" /\ Len(ev.enhanced) = 1 /\ IntegrationEvaluated(1)
    /\ IntegralOf(1) = 53000
    /\ ev.enhanced[1].method = "velocity"

C39_NoKnownAltitude ==
    /\ ev.op = "parse" /\ Len(ev.enhanced) = 1 /\ IntegrationEvaluated(1)
    /\ KnownAltitudes(flight_history["a"]) = { }
    /\ ev.enhanced[1].flight.vertical_rate = Some(-70000)
    /\ ev.enhanced[1].method = "integrated"
    /\ ev.enhanced[1].flight.predicted_altitude = 35000


(* The bands of C40: the speeds below an edge that are not below an       *)
(* earlier edge map to the altitude of that edge                           *)
SpeedBands ==
    << [below |-> 50, altitude |-> 0], [below |-> 150, altitude |-> 5000],
       [below |-> 250, altitude |-> 15000], [below |-> 350, altitude |-> 25000],
       [below |-> 450, altitude |-> 35000] >>

BandsOf(velocity) == { b \in 1..Len(SpeedBands) : velocity < SpeedBands[b].below }

BandAltitude(velocity) ==
    IF BandsOf(velocity) = { } THEN 40000
    ELSE SpeedBands[CHOOSE b \in BandsOf(velocity) : \A c \in BandsOf(velocity) : b <= c].altitude

(* C40: whenever the velocity heuristic answers, the resolved altitude is *)
(* the altitude of the band of the observation's ground speed, which lies *)
(* in [0, 50000]; an observation with a ground speed that reaches the     *)
(* heuristic (no raw altitude, filter prediction out of range, no         *)
(* vertical rate) is answered by it; and the phase heuristic answers only *)
(* observations without ground speed.                                      *)
C40_VelocityBands ==
    ev.op = "parse" =>
        \A i \in 1..Len(ev.enhanced) :
            /\ ev.enhanced[i].method = "velocity" =>
                   /\ ev.enhanced[i].flight.velocity # None
                   /\ ev.enhanced[i].flight.predicted_altitude
                          = BandAltitude(ev.enhanced[i].flight.velocity[1])
                   /\ 0 <= ev.enhanced[i].flight.predicted_altitude
                   /\ ev.enhanced[i].flight.predicted_altitude <= 50000
            /\ ev.enhanced[i].method = "phase" => ev.enhanced[i].flight.velocity = None
            /\ ( /\ NoRawAltitude(ev.enhanced[i].flight)
                 /\ FilterAfter(i).state[1] > 50000
                 /\ ev.enhanced[i].flight.vertical_rate = None
                 /\ ev.enhanced[i].flight.velocity # None )
                   => ev.enhanced[i].method = "velocity"

(* An observation with ground speed 50, the lower edge of the second band, *)
(* is answered by the velocity heuristic with 5000                         *)
C40_Witness ==
    /\ ev.op = "parse"
    /\ Len(ev.enhanced) = 1
    /\ ev.enhanced[1].method = "velocity"
    /\ ev.enhanced[1].flight.velocity = Some(50)
    /\ ev.enhanced[1].flight.predicted_altitude = 5000

(* Every speed of AgedSpeeds reaches the heuristic, and an observation   *)
(* without ground speed the phase heuristic                               *)
C40_HighestBand ==
    /\ ev.op = "parse" /\ Len(ev.enhanced) = 1
    /\ ev.enhanced[1].method = "velocity"
    /\ ev.enhanced[1].flight.velocity = Some(450)
    /\ ev.enhanced[1].flight.predicted_altitude = 40000

C40_PhaseReached ==
    /\ ev.op = "parse" /\ Len(ev.enhanced) = 1
    /\ ev.enhanced[1].method = "phase"
    /\ ev.enhanced[1].flight.velocity = None
    /\ FilterAfter(1).state[1] > 50000

=============================================================================
